---- MODULE Spec2Model ----
(***************************************************************************)
(* i3-github-bot: the two GitHub webhook handlers (issuesHandler,          *)
(* issueCommentHandler), the signature check in front of them, the helpers *)
(* that talk to the tracker API and the version extractor.                 *)
(*                                                                         *)
(* Strings are TLA+ strings read one character at a time with SubSeq, so   *)
(* the regular expressions and the string functions of the source are      *)
(* computed on the text itself.                                            *)
(***************************************************************************)
EXTENDS Integers, Sequences, FiniteSets, TLC

(***************************************************************************)
(* Strings: strings.HasPrefix, strings.HasSuffix, strings.Contains,        *)
(* strings.ToLower.                                                        *)
(***************************************************************************)

\* A nil pointer of the decoded payload (a JSON field that is absent or null).
Nil == "<nil>"

Ch(s, i) == IF i >= 1 /\ i <= Len(s) THEN SubSeq(s, i, i) ELSE ""

HasPrefixAt(s, i, p) ==
    /\ i >= 1
    /\ i + Len(p) - 1 <= Len(s)
    /\ SubSeq(s, i, i + Len(p) - 1) = p

HasPrefix(s, p) == HasPrefixAt(s, 1, p)

HasSuffix(s, p) == Len(s) >= Len(p) /\ HasPrefixAt(s, Len(s) - Len(p) + 1, p)

Contains(s, sub) == \E i \in 1..(Len(s) + 1) : HasPrefixAt(s, i, sub)

UpperCase == <<"A", "B", "C", "D", "E", "F", "G", "H", "I", "J", "K", "L", "M",
               "N", "O", "P", "Q", "R", "S", "T", "U", "V", "W", "X", "Y", "Z">>
LowerCase == <<"a", "b", "c", "d", "e", "f", "g", "h", "i", "j", "k", "l", "m",
               "n", "o", "p", "q", "r", "s", "t", "u", "v", "w", "x", "y", "z">>

LowerCh(c) ==
    IF \E k \in 1..Len(UpperCase) : UpperCase[k] = c
    THEN LowerCase[CHOOSE k \in 1..Len(UpperCase) : UpperCase[k] = c]
    ELSE c

\* The characters lo..hi of s in lower case (the text is cut in halves to
\* keep the recursion shallow).
RECURSIVE ToLowerRange(_, _, _)
ToLowerRange(s, lo, hi) ==
    IF lo > hi THEN ""
    ELSE IF lo = hi THEN LowerCh(Ch(s, lo))
    ELSE ToLowerRange(s, lo, (lo + hi) \div 2)
         \o ToLowerRange(s, ((lo + hi) \div 2) + 1, hi)

ToLower(s) == ToLowerRange(s, 1, Len(s))

(***************************************************************************)
(* Regular expressions of the classifier.  A pattern is a sequence of      *)
(* literals and of WS items (a greedy run of white space); every literal  *)
(* starts with a character that is no white space, so the greedy run never *)
(* has to give anything back.                                              *)
(***************************************************************************)

WS == "\\s*"

IsSpace(c) == c \in {" ", "\t", "\n", "\r", "\f"}

IsDigit(c) == c \in {"0", "1", "2", "3", "4", "5", "6", "7", "8", "9"}

RECURSIVE SkipSpace(_, _)
SkipSpace(s, i) == IF IsSpace(Ch(s, i)) THEN SkipSpace(s, i + 1) ELSE i

RECURSIVE SkipDigits(_, _)
SkipDigits(s, i) == IF IsDigit(Ch(s, i)) THEN SkipDigits(s, i + 1) ELSE i

\* The position after a match of items k.. of pattern pat that starts at
\* position i of s; 0 when there is none.
RECURSIVE MatchAt(_, _, _, _)
MatchAt(pat, k, s, i) ==
    IF k > Len(pat) THEN i
    ELSE IF pat[k] = WS THEN MatchAt(pat, k + 1, s, SkipSpace(s, i))
    ELSE IF HasPrefixAt(s, i, pat[k]) THEN MatchAt(pat, k + 1, s, i + Len(pat[k]))
    ELSE 0

MatchString(pat, s) == \E i \in 1..(Len(s) + 1) : MatchAt(pat, 1, s, i) # 0

enhancementRegexp == <<"[", WS, "x", WS, "]", WS, "feature", WS, "request">>

newConfigurationRegexp ==
    <<"[", WS, "x", WS, "]", WS, "this", WS, "feature", WS, "requires", WS,
      "new", WS, "configuration">>

bugRegexp == <<"[", WS, "x", WS, "]", WS, "bug">>

documentationRegexp ==
    <<"[", WS, "x", WS, "]", WS, "documentation", WS, "request">>

\* feature.?request|enhancement
enhancementRegexpTitle(s) ==
    \E i \in 1..(Len(s) + 1) :
        \/ /\ HasPrefixAt(s, i, "feature")
           /\ \/ HasPrefixAt(s, i + 7, "request")
              \/ /\ Ch(s, i + 7) \notin {"", "\n"}
                 /\ HasPrefixAt(s, i + 8, "request")
        \/ HasPrefixAt(s, i, "enhancement")

LogLink == "://logs.i3wm.org"

(***************************************************************************)
(* version.go: reMajorVersion, stripConfigLine, extractVersion.            *)
(***************************************************************************)

Programs == <<"i3", "i3status", "i3lock">>

\* (?:version|v|vers|ver)? : the alternatives in the order the regexp tries
\* them, the empty match last.
VersionWords == <<"version", "v", "vers", "ver", "">>

\* \p{Greek}: TLA+ strings are ASCII, so no text of the model has a Greek
\* letter and the class is empty here.
IsGreek(c) == FALSE

\* (3\.[a-e]|3\.\p{Greek}|[0-9]\.[0-9]+) at position k: the position after
\* the token, 0 when there is none.
\* The same with a patch component taken into the token: [0-9]\.[0-9]+\.[0-9]*
\* where the text has it.
VersionTokenEnd_WithPatch(s, k) ==
    IF Ch(s, k) = "3" /\ Ch(s, k + 1) = "." /\ Ch(s, k + 2) \in {"a", "b", "c", "d", "e"}
    THEN k + 3
    ELSE IF IsDigit(Ch(s, k)) /\ Ch(s, k + 1) = "." /\ IsDigit(Ch(s, k + 2))
    THEN (IF Ch(s, SkipDigits(s, k + 2)) = "."
          THEN SkipDigits(s, SkipDigits(s, k + 2) + 1)
          ELSE SkipDigits(s, k + 2))
    ELSE 0

VersionTokenEnd(s, k) ==
    IF Ch(s, k) = "3" /\ Ch(s, k + 1) = "." /\ Ch(s, k + 2) \in {"a", "b", "c", "d", "e"}
    THEN k + 3
    ELSE IF Ch(s, k) = "3" /\ Ch(s, k + 1) = "." /\ IsGreek(Ch(s, k + 2))
    THEN k + 3
    ELSE IF IsDigit(Ch(s, k)) /\ Ch(s, k + 1) = "." /\ IsDigit(Ch(s, k + 2))
    THEN SkipDigits(s, k + 2)
    ELSE 0

\* The least and the greatest number of a set of numbers that is not empty.
Min(S) == CHOOSE k \in S : \A n \in S : k <= n
Max(S) == CHOOSE k \in S : \A n \in S : n <= k

\* An optional ":" at position i, taken (take) or left: the position after
\* it; 0 when it is to be taken and is not there, or when i is 0 (no match
\* so far).
OptColon(s, i, take) ==
    IF i = 0 THEN 0
    ELSE IF ~take THEN i
    ELSE IF Ch(s, i) = ":" THEN i + 1
    ELSE 0

\* The literal lit at position i: the position after it, 0 when it is not
\* there or when i is 0.
Literal(s, i, lit) == IF HasPrefixAt(s, i, lit) THEN i + Len(lit) ELSE 0

\* One way through reMajorVersion from position i up to the version token:
\* program prog, the first ":" taken or not (c1), the word word, the second
\* ":" taken or not (c2).  The position where the version token has to
\* start, 0 when this way does not match.
VersionTokenStart(s, i, prog, c1, word, c2) ==
    SkipSpace(s, OptColon(s,
        Literal(s, SkipSpace(s, OptColon(s, Literal(s, i, prog), c1)), word), c2))

\* The match <<whole, program, version>> of a way through reMajorVersion
\* that starts at i, has its version token from e to f - 1 (end: the
\* position after the match), or [end |-> 0].
VersionMatch(s, i, prog, e, f) ==
    IF f = 0 THEN [end |-> 0]
    ELSE [end |-> f, m |-> <<SubSeq(s, i, f - 1), prog, SubSeq(s, e, f - 1)>>]

VersionMatchFrom(s, i, prog, e) == VersionMatch(s, i, prog, e, VersionTokenEnd(s, e))

VersionAttempt(s, i, prog, c1, word, c2) ==
    VersionMatchFrom(s, i, prog, VersionTokenStart(s, i, prog, c1, word, c2))

\* The ways through reMajorVersion in the regexp's order of preference
\* (leftmost-first): way n takes program n \div 20, the first colon iff
\* (n \div 10) % 2 = 0, word (n \div 2) % 5 and the second colon iff
\* n % 2 = 0.
NumAttempts == 60

AttemptNo(s, i, n) ==
    VersionAttempt(s, i, Programs[(n \div 20) + 1], ((n \div 10) % 2) = 0,
                   VersionWords[((n \div 2) % 5) + 1], (n % 2) = 0)

PreferredAttempt(s, i, ok) ==
    IF ok = {} THEN [end |-> 0] ELSE AttemptNo(s, i, Min(ok))

\* reMajorVersion anchored at position i.
reMajorVersionAt(s, i) ==
    PreferredAttempt(s, i, {n \in 0..(NumAttempts - 1) : AttemptNo(s, i, n).end # 0})

\* reMajorVersion.FindAllStringSubmatch(s, -1) from position i on: the
\* matches <<whole, program, version>>, left to right, not overlapping.
RECURSIVE FindAllStringSubmatch(_, _)
MatchThenRest(s, r) == <<r.m>> \o FindAllStringSubmatch(s, r.end)

LeftmostMatch(s, starts) ==
    IF starts = {} THEN <<>> ELSE MatchThenRest(s, reMajorVersionAt(s, Min(starts)))

FindAllStringSubmatch(s, i) ==
    LeftmostMatch(s, {k \in i..Len(s) :
                        HasPrefixAt(s, k, "i3") /\ reMajorVersionAt(s, k).end # 0})

ConfigLineHead == " - config_parser"
ConfigLineFunc == "c:parse_config:"
ConfigLineMid  == " - CONFIG(line "
ConfigLineTail ==
    "): # Before i3 v4.8, we used to recommend this one as the default:"

\* "." : any character but a newline.
AnyChar(s, i) == IF i = 0 \/ Ch(s, i) \in {"", "\n"} THEN 0 ELSE i + 1

\* [0-9]+
SomeDigits(s, i) == IF IsDigit(Ch(s, i)) THEN SkipDigits(s, i) ELSE 0

\* The trailing \s*$ under (?m), from position v: the greedy run of white
\* space gives characters back until it stands at the end of the text or in
\* front of a newline.  The position after the match, 0 when there is none.
LastLineEnd(ends) == IF ends = {} THEN 0 ELSE Max(ends)

\* The same without the flag (?m): $ is the end of the text only.
LineEndAfter_NoMultiline(s, v) ==
    IF v # 0 /\ SkipSpace(s, v) = Len(s) + 1 THEN Len(s) + 1 ELSE 0

LineEndAfter(s, v) ==
    IF v = 0 THEN 0
    ELSE LastLineEnd({e \in v..SkipSpace(s, v) : e = Len(s) + 1 \/ Ch(s, e) = "\n"})

\* stripConfigLine anchored at position i: the position after the match, 0
\* when there is none.
stripConfigLineAt(s, i) ==
    LineEndAfter(s,
      Literal(s, SomeDigits(s,
        Literal(s, SomeDigits(s,
          Literal(s, AnyChar(s, Literal(s, i, ConfigLineHead)), ConfigLineFunc)),
          ConfigLineMid)),
        ConfigLineTail))

\* stripConfigLine.ReplaceAllString(s, "") from position i on.
RECURSIVE ReplaceAllString(_, _)
CutMatch(s, i, k) == SubSeq(s, i, k - 1) \o ReplaceAllString(s, stripConfigLineAt(s, k))

CutLeftmost(s, i, starts) ==
    IF starts = {} THEN SubSeq(s, i, Len(s)) ELSE CutMatch(s, i, Min(starts))

ReplaceAllString(s, i) ==
    CutLeftmost(s, i, {k \in i..Len(s) : stripConfigLineAt(s, k) # 0})

Digits == <<"0", "1", "2", "3", "4", "5", "6", "7", "8", "9">>

DigitVal(c) == (CHOOSE k \in 1..10 : Digits[k] = c) - 1

\* The number written by the digits s[i..j-1].
RECURSIVE NumberAt(_, _, _, _)
NumberAt(s, i, j, acc) ==
    IF i >= j THEN acc ELSE NumberAt(s, i + 1, j, acc * 10 + DigitVal(Ch(s, i)))

\* Primary collation weight of one character: punctuation before digits
\* before letters, letters in alphabetical order whatever their case.
CollationWeight(c) ==
    IF IsDigit(c) THEN 100
    ELSE IF \E k \in 1..26 : LowerCase[k] = LowerCh(c)
    THEN 200 + (CHOOSE k \in 1..26 : LowerCase[k] = LowerCh(c))
    ELSE 1

\* collate.New(language.Und, collate.Numeric): -1, 0 or 1 as a[i..] sorts
\* before, with or after b[j..]; a run of digits counts as the number it
\* writes.
RECURSIVE CompareFrom(_, _, _, _)
\* Two runs of digits, worth va and vb and ending before ea and eb.
CompareRuns(a, ea, va, b, eb, vb) ==
    IF va < vb THEN -1
    ELSE IF va > vb THEN 1
    ELSE CompareFrom(a, ea, b, eb)

CompareWeights(a, i, wa, b, j, wb) ==
    IF wa < wb THEN -1
    ELSE IF wa > wb THEN 1
    ELSE CompareFrom(a, i + 1, b, j + 1)

CompareFrom(a, i, b, j) ==
    IF i > Len(a) /\ j > Len(b) THEN 0
    ELSE IF i > Len(a) THEN -1
    ELSE IF j > Len(b) THEN 1
    ELSE IF IsDigit(Ch(a, i)) /\ IsDigit(Ch(b, j))
    THEN CompareRuns(a, SkipDigits(a, i), NumberAt(a, i, SkipDigits(a, i), 0),
                     b, SkipDigits(b, j), NumberAt(b, j, SkipDigits(b, j), 0))
    ELSE CompareWeights(a, i, CollationWeight(Ch(a, i)), b, j, CollationWeight(Ch(b, j)))

\* The comparison without collate.Numeric: character by character, a digit
\* worth itself.
CompareNumeric_Lexical(a, b) ==
    LET wt(c) == IF IsDigit(c) THEN 100 + DigitVal(c) ELSE CollationWeight(c)
        d == {k \in 1..Min({Len(a), Len(b)}) : Ch(a, k) # Ch(b, k)}
    IN  IF d # {}
        THEN (IF wt(Ch(a, Min(d))) < wt(Ch(b, Min(d))) THEN -1 ELSE 1)
        ELSE IF Len(a) < Len(b) THEN -1
        ELSE IF Len(a) > Len(b) THEN 1
        ELSE 0

CompareNumeric(a, b) == CompareFrom(a, 1, b, 1)

\* SortStrings(versions) followed by versions[len(versions)-1]: an entry no
\* other entry sorts after (the last such entry of the list).
SortedLast(versions) ==
    versions[Max({k \in 1..Len(versions) :
                    \A n \in 1..Len(versions) :
                        CompareNumeric(versions[n], versions[k]) <= 0})]

\* extractVersion after FindAllStringSubmatch: <<>> or <<whole, program,
\* version>> (whole is "" when the version is the greatest of the matches
\* of one program).
\* The same without the return for a second program: the greatest version
\* of all matches, under the first program.
HighestMatch_SortAll(allmatches) ==
    IF Len(allmatches) = 0 THEN <<>>
    ELSE <<"", allmatches[1][2],
           SortedLast([k \in 1..Len(allmatches) |-> allmatches[k][3]])>>

HighestMatch(allmatches) ==
    IF Len(allmatches) = 0 THEN <<>>
    ELSE IF \E k \in 1..Len(allmatches) : allmatches[k][2] # allmatches[1][2]
    THEN allmatches[1]
    ELSE <<"", allmatches[1][2],
           SortedLast([k \in 1..Len(allmatches) |-> allmatches[k][3]])>>

extractVersion(body) ==
    HighestMatch(FindAllStringSubmatch(ReplaceAllString(body, 1), 1))

\* The loop that strips trailing "." from matches[2].
RECURSIVE TrimDots(_)
TrimDots(v) == IF HasSuffix(v, ".") THEN TrimDots(SubSeq(v, 1, Len(v) - 1)) ELSE v

(***************************************************************************)
(* The signature check: crypto/hmac and encoding/hex.                      *)
(***************************************************************************)

\* The credential the datastore holds under the key "githubtoken".
StoredToken == [Token |-> "t0ken", Secret |-> "s3cr3t"]

\* The keys a sender may sign with and the request bodies (the raw bytes,
\* named; what they decode to is drawn when json.Unmarshal reads them).
SigningKeys == <<"s3cr3t", "0ther", "">>
RawBodies   == <<"body-a", "body-b">>

IndexOf(seq, x) == CHOOSE k \in 1..Len(seq) : seq[k] = x

\* hmac.New(sha1.New, key) over msg: a digest (a sequence of bytes) that
\* differs whenever the key or the message differs.
HmacSum(key, msg) == <<160 + IndexOf(SigningKeys, key), 176 + IndexOf(RawBodies, msg)>>

HexDigits == <<"0", "1", "2", "3", "4", "5", "6", "7", "8", "9",
               "a", "b", "c", "d", "e", "f">>

RECURSIVE HexEncode(_)
HexEncode(bytes) ==
    IF bytes = <<>> THEN ""
    ELSE HexDigits[(Head(bytes) \div 16) + 1] \o HexDigits[(Head(bytes) % 16) + 1]
         \o HexEncode(Tail(bytes))

IsHexDigit(c) == \E k \in 1..16 : HexDigits[k] = LowerCh(c)

HexVal(c) == IndexOf(HexDigits, LowerCh(c)) - 1

\* hex.DecodeString: [err |-> TRUE] for a text of odd length or with a
\* character that is no hexadecimal digit (either case is one).
RECURSIVE HexDecodeFrom(_, _)
HexDecodeFrom(s, i) ==
    IF i > Len(s) THEN <<>>
    ELSE <<16 * HexVal(Ch(s, i)) + HexVal(Ch(s, i + 1))>> \o HexDecodeFrom(s, i + 2)

HexDecodeString(s) ==
    IF Len(s) % 2 # 0 \/ \E i \in 1..Len(s) : ~IsHexDigit(Ch(s, i))
    THEN [err |-> TRUE, bytes |-> <<>>]
    ELSE [err |-> FALSE, bytes |-> HexDecodeFrom(s, 1)]

RECURSIVE ToUpperFrom(_, _)
ToUpperFrom(s, i) ==
    IF i > Len(s) THEN ""
    ELSE (IF \E k \in 1..26 : LowerCase[k] = Ch(s, i)
          THEN UpperCase[IndexOf(LowerCase, Ch(s, i))] ELSE Ch(s, i))
         \o ToUpperFrom(s, i + 1)

\* readAndVerifyBody on request r with the cached secret: the error, or the
\* body and the event type.
\* hmac.Equal left out.
CompareSignature_NoEqual(r, want, got) ==
    IF want.err THEN [err |-> "Error decoding X-Hub-Signature"]
    ELSE [err |-> "", body |-> r.body, event |-> r.event]

\* The end of readAndVerifyBody: want is the decoded signature, got the
\* HMAC of the body that was read.
CompareSignature(r, want, got) ==
    IF want.err THEN [err |-> "Error decoding X-Hub-Signature"]
    ELSE IF want.bytes # got THEN [err |-> "X-Hub-Signature wrong"]
    ELSE [err |-> "", body |-> r.body, event |-> r.event]

readAndVerifyBody(r, secret) ==
    IF r.event = "" THEN [err |-> "X-GitHub-Event header missing"]
    ELSE IF r.signature = "" THEN [err |-> "X-Hub-Signature missing"]
    ELSE IF ~HasPrefix(r.signature, "sha1=")
    THEN [err |-> "X-Hub-Signature does not start with sha1="]
    ELSE CompareSignature(r,
             HexDecodeString(SubSeq(r.signature, Len("sha1=") + 1, Len(r.signature))),
             HmacSum(secret, r.body))

(***************************************************************************)
(* State.                                                                  *)
(***************************************************************************)

VARIABLES
    githubToken,  \* the process-wide credential cache (var githubToken)
    issue,        \* the tracker's issue: labels, comments, state
    pc,           \* per request in flight: the handler's position
    handler,      \* per request: "/issues" or "/issue_comment"
    req,          \* per request: the HTTP request (headers, raw body)
    verified,     \* per request: the error and the event type readAndVerifyBody returned
    payload,      \* per request: the decoded event
    milestones,   \* per request: what getCompletedMilestones returned
    w,            \* per request: the status WriteHeader has sent, 0 for none
    calls,        \* per request: the tracker API calls made so far, in order
    gets,         \* per request: the datastore.Get calls made so far (TRUE: no error)
    test          \* a unit test of extractVersion: its body, its matches

vars == <<githubToken, issue, pc, handler, req, verified, payload, milestones, w, calls,
          gets, test>>

\* The requests that may be in flight at once.
Procs == {"r1", "r2"}

StatusOK                  == 200
StatusBadRequest          == 400
StatusInternalServerError == 500

\* http.Error: the first WriteHeader of a response decides its status.
HttpError(status, code) == IF status = 0 THEN code ELSE status

\* The status the client sees once the handler has returned.
ResponseStatus(p) == IF w[p] = 0 THEN StatusOK ELSE w[p]

(***************************************************************************)
(* Inputs.                                                                 *)
(***************************************************************************)

EventHeaders == {"", "ping", "issues", "issue_comment"}

\* X-Hub-Signature values for a request with body b: none, the right one
\* (in either case of the hexadecimal digits), one made with another key or
\* over another body, one without the prefix, and two that are no
\* hexadecimal text.
SignatureHeaders(b) ==
    {"", "sha1=" \o HexEncode(HmacSum(StoredToken.Secret, b)),
     "sha1=" \o ToUpperFrom(HexEncode(HmacSum(StoredToken.Secret, b)), 1),
     HexEncode(HmacSum(StoredToken.Secret, b)),
     "sha1=a1b", "sha1=zz"}
    \cup {"sha1=" \o HexEncode(HmacSum("0ther", b))}
    \cup {"sha1=" \o HexEncode(HmacSum(StoredToken.Secret, c)) :
            c \in {RawBodies[k] : k \in 1..Len(RawBodies)}}

MilestoneTitles == {"4.10", "4.9"}

\* The longest list ListMilestones returns.
MaxMilestones == 2

MilestoneLists ==
    UNION {[1..n -> MilestoneTitles] : n \in 0..MaxMilestones}

CoreLabels == {"missing-log", "missing-version", "unsupported-version", "4.10"}

LabelSets ==
    (SUBSET CoreLabels)
    \cup {{"enhancement", "requires-configuration"}, {"bug"},
          {"documentation", "missing-log"}}

ConfigLogLine ==
    "03/28/2015 10:21:22 PM - config_parser.c:parse_config:313 - CONFIG(line 22): # Before i3 v4.8, we used to recommend this one as the default:"

IssueTitles == {"i3 crashes on restart", "Feature request: tabbed titles", Nil}

IssueBodies ==
    {"",
     "- [x] Bug\nit crashes",
     "[x] bug\nlog: https://logs.i3wm.org/logs/1.bz2\nBinary i3 version:  4.10.1 (2015-03-29)",
     "i3 version: 4.9\n",
     "http://logs.i3wm.org/logs/2.bz2 worked with i3 4.9.* now i3 v4.10",
     "[X] Feature Request\n[x] bug\ni3 4.9",
     "[x] feature request\n[ x ] This feature requires new configuration",
     "[x] documentation request\n[x] bug\ni3 4.9",
     "i3lock: 2.1 https://logs.i3wm.org/logs/3.bz2",
     "i3: 4.10 and i3lock: 2.1",
     "[x] bug\nHTTPS://LOGS.I3WM.ORG/logs/4.bz2\nI3 VERSION: 4.10",
     "my log:\n" \o ConfigLogLine \o "\n\nNot sure which version it is",
     Nil}

IssueActions == {"opened", "edited", "closed", Nil}

Logins == {"alice", "bob", Nil}

CommentBodies ==
    {"thanks", "i3 version: 4.10", "it is i3 version 4.9",
     "see https://logs.i3wm.org/logs/5.bz2",
     "https://logs.i3wm.org/logs/6.bz2 and i3 v4.10 (was i3 v4.9)",
     "i3status 2.9", Nil}

\* The texts of the deliveries, and strings.ToLower and extractVersion of
\* each of them, computed once.
WrittenTexts == (IssueBodies \cup IssueTitles \cup CommentBodies) \ {Nil}

UpperCh(c) ==
    IF \E k \in 1..Len(LowerCase) : LowerCase[k] = c
    THEN UpperCase[CHOOSE k \in 1..Len(LowerCase) : LowerCase[k] = c]
    ELSE c

\* The characters lo..hi of s in capital letters.
RECURSIVE CapitalsRange(_, _, _)
CapitalsRange(s, lo, hi) ==
    IF lo > hi THEN ""
    ELSE IF lo = hi THEN UpperCh(Ch(s, lo))
    ELSE CapitalsRange(s, lo, (lo + hi) \div 2)
         \o CapitalsRange(s, ((lo + hi) \div 2) + 1, hi)

\* The same texts as their authors would write them in capital letters.
InCapitals == [t \in WrittenTexts |-> CapitalsRange(t, 1, Len(t))]

Texts == WrittenTexts \cup {InCapitals[t] : t \in WrittenTexts}

Lowered == [t \in Texts |-> ToLower(t)]

Extracted == [t \in Texts |-> extractVersion(t)]

\* What the bytes of an "issues" delivery decode to, for an issue that has
\* the labels ls.
IssuesEvents(ls) ==
    [Action : IssueActions,
     Issue  : [Title : IssueTitles, Body : IssueBodies, Labels : {ls},
               User : {"alice"}]]

\* The actions of an "issue_comment" event.
CommentActions == {"created", "edited", "deleted"}

\* What the bytes of an "issue_comment" delivery decode to.
IssueCommentEvents(ls) ==
    [Action  : CommentActions,
     Issue   : [Title : {"i3 crashes on restart"}, Body : {"i3 version: 4.9\n"},
                Labels : {ls}, User : {"alice", Nil}],
     Comment : [User : Logins, Body : CommentBodies]]

NoRequest  == [event |-> "", signature |-> "", body |-> ""]
NoVerified == [err |-> "not read", event |-> ""]
NoPayload  == [Action |-> Nil]
NoTest     == [lines |-> <<>>, body |-> "", matches |-> <<>>, ran |-> FALSE]

(***************************************************************************)
(* Init: no request in flight; the cache is empty (a fresh instance) or    *)
(* holds the stored credential; the issue is open with some labels.        *)
(***************************************************************************)

Init ==
    /\ githubToken \in {[Token |-> "", Secret |-> ""], StoredToken}
    /\ issue \in [labels : LabelSets, comments : {<<>>}, state : {"open"},
                  state_reason : {""}]
    /\ pc = [p \in Procs |-> "idle"]
    /\ handler = [p \in Procs |-> ""]
    /\ req = [p \in Procs |-> NoRequest]
    /\ verified = [p \in Procs |-> NoVerified]
    /\ payload = [p \in Procs |-> NoPayload]
    /\ milestones = [p \in Procs |-> <<>>]
    /\ w = [p \in Procs |-> 0]
    /\ calls = [p \in Procs |-> <<>>]
    /\ gets = [p \in Procs |-> <<>>]
    /\ test = NoTest

Goto(p, label) == pc' = [pc EXCEPT ![p] = label]

Fail(p, code) == w' = [w EXCEPT ![p] = HttpError(@, code)]

(***************************************************************************)
(* The head of both handlers: credential, signature, event type, JSON.     *)
(***************************************************************************)

\* A delivery arrives at one of the two webhook paths.
Receive(p) ==
    /\ pc[p] = "idle"
    /\ \E h \in {"/issues", "/issue_comment"}, e \in EventHeaders,
          k \in 1..Len(RawBodies) :
         \E sig \in SignatureHeaders(RawBodies[k]) :
            /\ handler' = [handler EXCEPT ![p] = h]
            /\ req' = [req EXCEPT ![p] =
                         [event |-> e, signature |-> sig, body |-> RawBodies[k]]]
    /\ Goto(p, "token")
    /\ UNCHANGED <<test, gets, githubToken, issue, verified, payload, milestones, w, calls>>

\* getGitHubToken without the look at the package variable: the entity is
\* read for every request.
getGitHubToken_NoCache(p) ==
    /\ pc[p] = "token"
    /\ \E loaded \in BOOLEAN :
         /\ gets' = [gets EXCEPT ![p] = Append(@, loaded)]
         /\ IF loaded
            THEN /\ githubToken' = StoredToken
                 /\ Goto(p, "verify")
                 /\ UNCHANGED w
            ELSE /\ Fail(p, StatusInternalServerError)
                 /\ Goto(p, "done")
                 /\ UNCHANGED githubToken
    /\ UNCHANGED <<test, issue, handler, req, verified, payload, milestones, calls>>

\* getGitHubToken, and the handler's answer when it fails.
getGitHubToken(p) ==
    /\ pc[p] = "token"
    /\ IF githubToken.Secret # "" /\ githubToken.Token # ""
       THEN /\ Goto(p, "verify")
            /\ UNCHANGED <<githubToken, w, gets>>
       ELSE \E loaded \in BOOLEAN :
              /\ gets' = [gets EXCEPT ![p] = Append(@, loaded)]
              /\ IF loaded
                 THEN /\ githubToken' = StoredToken
                      /\ Goto(p, "verify")
                      /\ UNCHANGED w
                 ELSE /\ Fail(p, StatusInternalServerError)
                      /\ Goto(p, "done")
                      /\ UNCHANGED githubToken
    /\ UNCHANGED <<test, issue, handler, req, verified, payload, milestones, calls>>

\* The return after the answer to the error left out.
VerifyBody_NoReturn(p) ==
    /\ pc[p] = "verify"
    /\ \E r \in {readAndVerifyBody(req[p], githubToken.Secret)} :
           /\ verified' = [verified EXCEPT ![p] = [err |-> "", event |-> req[p].event]]
           /\ Goto(p, "event")
           /\ IF r.err # "" THEN Fail(p, StatusBadRequest) ELSE UNCHANGED w
    /\ UNCHANGED <<test, gets, githubToken, issue, handler, req, payload, milestones, calls>>

\* The call of readAndVerifyBody and the handler's answer to its error.
VerifyBody(p) ==
    /\ pc[p] = "verify"
    /\ \E r \in {readAndVerifyBody(req[p], githubToken.Secret)} :
           IF r.err # ""
           THEN /\ verified' = [verified EXCEPT ![p] = [err |-> r.err, event |-> ""]]
                /\ Fail(p, StatusBadRequest)
                /\ Goto(p, "done")
                /\ UNCHANGED req
           ELSE \* Of what readAndVerifyBody returned, the event type is kept
                \* (what the bytes decode to is drawn when they are decoded).
                /\ verified' = [verified EXCEPT ![p] = [err |-> "", event |-> r.event]]
                /\ Goto(p, "event")
                /\ UNCHANGED <<w, req>>
    /\ UNCHANGED <<test, gets, githubToken, issue, handler, payload, milestones, calls>>

\* The event type the handler at path h acts on.
ExpectedEvent(h) == IF h = "/issues" THEN "issues" ELSE "issue_comment"

\* The checks of the event type and json.Unmarshal: the bytes are no JSON
\* (bad), or decode to an event ev.
DecodeEvent(p) ==
    /\ pc[p] = "event"
    /\ IF verified[p].event = "ping"
       THEN Goto(p, "done") /\ UNCHANGED <<w, payload>>
       ELSE IF verified[p].event # ExpectedEvent(handler[p])
       THEN Fail(p, StatusBadRequest) /\ Goto(p, "done") /\ UNCHANGED payload
       ELSE \/ /\ Fail(p, StatusBadRequest)
               /\ Goto(p, "done")
               /\ UNCHANGED payload
            \/ /\ \E ev \in (IF handler[p] = "/issues"
                             THEN IssuesEvents(issue.labels)
                             ELSE IssueCommentEvents(issue.labels)) :
                     payload' = [payload EXCEPT ![p] = ev]
               /\ Goto(p, "decoded")
               /\ UNCHANGED w
    \* The handler reads the request no more once the event is decoded.
    /\ req' = [req EXCEPT ![p] = IF pc'[p] = "decoded" THEN NoRequest ELSE @]
    /\ UNCHANGED <<test, gets, githubToken, issue, handler, verified, milestones, calls>>

(***************************************************************************)
(* The helpers that call the tracker API.  Each takes the request p, what  *)
(* the call is about, whether the API call (if one is made) succeeds, and  *)
(* the positions the caller goes to when the helper returns true or false  *)
(* (a helper without a used result takes one position).                    *)
(***************************************************************************)

ApiCall(p, op, arg, ok) ==
    calls' = [calls EXCEPT ![p] = Append(@, [op |-> op, arg |-> arg, ok |-> ok])]

\* true returned after a failed call.
addLabel_TrueOnError(p, newLabel, ok, pcTrue, pcFalse) ==
    IF newLabel \in payload[p].Issue.Labels
    THEN /\ Goto(p, pcFalse)
         /\ UNCHANGED <<calls, issue, w>>
    ELSE /\ ApiCall(p, "AddLabels", newLabel, ok)
         /\ Goto(p, pcTrue)
         /\ IF ok
            THEN /\ issue' = [issue EXCEPT !.labels = @ \cup {newLabel}]
                 /\ UNCHANGED w
            ELSE /\ Fail(p, StatusInternalServerError)
                 /\ UNCHANGED issue

\* The labels of the issue replaced by those of the payload and the new
\* one, instead of the new one added to them.
addLabel_ReplaceLabels(p, newLabel, ok, pcTrue, pcFalse) ==
    IF newLabel \in payload[p].Issue.Labels
    THEN /\ Goto(p, pcFalse)
         /\ UNCHANGED <<calls, issue, w>>
    ELSE /\ ApiCall(p, "AddLabels", newLabel, ok)
         /\ IF ok
            THEN /\ issue' = [issue EXCEPT !.labels = payload[p].Issue.Labels \cup {newLabel}]
                 /\ Goto(p, pcTrue)
                 /\ UNCHANGED w
            ELSE /\ Fail(p, StatusInternalServerError)
                 /\ Goto(p, pcFalse)
                 /\ UNCHANGED issue

addLabel(p, newLabel, ok, pcTrue, pcFalse) ==
    IF newLabel \in payload[p].Issue.Labels
    THEN \* Avoid useless API requests.
         /\ Goto(p, pcFalse)
         /\ UNCHANGED <<calls, issue, w>>
    ELSE /\ ApiCall(p, "AddLabels", newLabel, ok)
         /\ IF ok
            THEN /\ issue' = [issue EXCEPT !.labels = @ \cup {newLabel}]
                 /\ Goto(p, pcTrue)
                 /\ UNCHANGED w
            ELSE /\ Fail(p, StatusInternalServerError)
                 /\ Goto(p, pcFalse)
                 /\ UNCHANGED issue

\* deleteLabel without the search of the payload's labels.
deleteLabel_NoSearch(p, oldLabel, ok, pcNext) ==
    /\ ApiCall(p, "RemoveLabel", oldLabel, ok)
    /\ Goto(p, pcNext)
    /\ IF ok
       THEN /\ issue' = [issue EXCEPT !.labels = @ \ {oldLabel}]
            /\ UNCHANGED w
       ELSE /\ Fail(p, StatusInternalServerError)
            /\ UNCHANGED issue

deleteLabel(p, oldLabel, ok, pcNext) ==
    IF oldLabel \notin payload[p].Issue.Labels
    THEN /\ Goto(p, pcNext)
         /\ UNCHANGED <<calls, issue, w>>
    ELSE /\ ApiCall(p, "RemoveLabel", oldLabel, ok)
         /\ Goto(p, pcNext)
         /\ IF ok
            THEN /\ issue' = [issue EXCEPT !.labels = @ \ {oldLabel}]
                 /\ UNCHANGED w
            ELSE /\ Fail(p, StatusInternalServerError)
                 /\ UNCHANGED issue

addComment(p, comment, ok, pcNext) ==
    /\ ApiCall(p, "CreateComment", comment, ok)
    /\ Goto(p, pcNext)
    /\ IF ok
       THEN /\ issue' = [issue EXCEPT !.comments = Append(@, comment)]
            /\ UNCHANGED w
       ELSE /\ Fail(p, StatusInternalServerError)
            /\ UNCHANGED issue

closeIssue(p, ok, pcNext) ==
    /\ calls' = [calls EXCEPT ![p] =
                   Append(@, [op |-> "EditIssue", arg |-> "closed",
                              reason |-> "not_planned", ok |-> ok])]
    /\ Goto(p, pcNext)
    /\ IF ok
       THEN /\ issue' = [issue EXCEPT !.state = "closed", !.state_reason = "not_planned"]
            /\ UNCHANGED w
       ELSE /\ Fail(p, StatusInternalServerError)
            /\ UNCHANGED issue

\* The error of the listing not answered.
getCompletedMilestones_Silent(p, ok, list) ==
    /\ ApiCall(p, "ListMilestones", "closed", ok)
    /\ milestones' = [milestones EXCEPT ![p] = IF ok THEN list ELSE <<>>]
    /\ UNCHANGED w

\* getCompletedMilestones: the closed milestones, by due date, latest first
\* (list), or nil after an error.
getCompletedMilestones(p, ok, list) ==
    /\ ApiCall(p, "ListMilestones", "closed", ok)
    /\ IF ok
       THEN /\ milestones' = [milestones EXCEPT ![p] = list]
            /\ UNCHANGED w
       ELSE /\ milestones' = [milestones EXCEPT ![p] = <<>>]
            /\ Fail(p, StatusInternalServerError)

(***************************************************************************)
(* The comments the bot posts.                                             *)
(***************************************************************************)

EnhancementComment ==
    "Please note that new features which require additional configuration will usually not be considered. We are happy with the feature set of i3 and want to focus in fixing bugs instead. We do accept feature requests, however, and will evaluate whether the added benefit (clearly) outweighs the complexity it adds to i3.\n\nKeep in mind that i3 provides a powerful way to interact with it through its IPC interface: https://i3wm.org/docs/ipc.html."

MissingLogComment ==
    "I don't see a link to logs.i3wm.org. Did you follow https://i3wm.org/docs/debugging.html? (In case you actually provided a link to a logfile, please ignore me.)"

MissingVersionComment ==
    "I don't see a version number. Could you please copy & paste the output of i3 --version into this issue?"

UpgradeComment(majorVersion, title) ==
    "Sorry, we can only support the latest major version. Please upgrade from "
    \o majorVersion \o " to " \o title
    \o ", verify the bug still exists, and re-open this issue."

(***************************************************************************)
(* issuesHandler after the decoding.                                       *)
(***************************************************************************)

lcBody(ev)  == Lowered[ev.Issue.Body]
lcTitle(ev) == Lowered[ev.Issue.Title]

IsEnhancement(ev) ==
    MatchString(enhancementRegexp, lcBody(ev)) \/ enhancementRegexpTitle(lcTitle(ev))

\* majorVersion of the handlers: matches[2] without trailing dots.
MajorVersion(text) == TrimDots(Extracted[text][3])

\* Where the handler goes from the extraction of the version out of text
\* (the body of the issue, or of the comment): to pcNone when there is
\* none, to the end for a program other than i3, to pcI3 else.
\* The test of matches[1] against "i3" left out.
AfterMatches_AnyProduct(matches, pcNone, pcI3) ==
    IF Len(matches) = 0 THEN pcNone ELSE pcI3

AfterMatches(matches, pcNone, pcI3) ==
    IF Len(matches) = 0 THEN pcNone
    ELSE IF matches[2] # "i3" THEN "done"
    ELSE pcI3

AfterExtract(text, pcNone, pcI3) == AfterMatches(Extracted[text], pcNone, pcI3)

\* issuesHandler from the extraction of the version on.
IssuesVersionStep(ev) == AfterExtract(ev.Issue.Body, "i_missing_version", "i_milestones")

\* issuesHandler from the check of the log link on.
IssuesLogStep(ev) ==
    IF ~Contains(lcBody(ev), LogLink) THEN "i_missing_log" ELSE IssuesVersionStep(ev)

\* The bug box looked at before the feature request.
IssuesClassify_BugFirst(ev) ==
    IF MatchString(bugRegexp, lcBody(ev)) THEN "i_bug"
    ELSE IF IsEnhancement(ev) THEN "i_enhancement"
    ELSE IF MatchString(documentationRegexp, lcBody(ev)) THEN "i_documentation"
    ELSE IssuesLogStep(ev)

\* The first call of the issue-opened pipeline.
IssuesClassify(ev) ==
    IF IsEnhancement(ev) THEN "i_enhancement"
    ELSE IF MatchString(documentationRegexp, lcBody(ev)) THEN "i_documentation"
    ELSE IF MatchString(bugRegexp, lcBody(ev)) THEN "i_bug"
    ELSE IssuesLogStep(ev)

\* From the decoded event to the first API call: a nil Action, Body or
\* Title is a nil pointer dereference.
IssuesOpened_AnyAction(p) ==
    /\ pc[p] = "decoded"
    /\ handler[p] = "/issues"
    /\ LET ev == payload[p]
       IN  IF ev.Action = Nil THEN Goto(p, "panic")
           ELSE IF ev.Issue.Body = Nil \/ ev.Issue.Title = Nil THEN Goto(p, "panic")
           ELSE Goto(p, IssuesClassify(ev))
    /\ UNCHANGED <<test, gets, githubToken, issue, handler, req, verified, payload, milestones, w, calls>>

IssuesOpened(p) ==
    /\ pc[p] = "decoded"
    /\ handler[p] = "/issues"
    /\ LET ev == payload[p]
       IN  IF ev.Action = Nil THEN Goto(p, "panic")
           ELSE IF ev.Action # "opened" THEN Goto(p, "done")
           ELSE IF ev.Issue.Body = Nil \/ ev.Issue.Title = Nil THEN Goto(p, "panic")
           ELSE Goto(p, IssuesClassify(ev))
    /\ UNCHANGED <<test, gets, githubToken, issue, handler, req, verified, payload, milestones, w, calls>>

IssuesEnhancement(p) ==
    /\ pc[p] = "i_enhancement"
    /\ LET next == IF MatchString(newConfigurationRegexp, lcBody(payload[p]))
                   THEN "i_requires_configuration" ELSE "i_enhancement_comment"
       IN  \E ok \in BOOLEAN : addLabel(p, "enhancement", ok, next, next)
    /\ UNCHANGED <<test, gets, githubToken, handler, req, verified, payload, milestones>>

IssuesRequiresConfiguration(p) ==
    /\ pc[p] = "i_requires_configuration"
    /\ \E ok \in BOOLEAN :
         addLabel(p, "requires-configuration", ok,
                  "i_enhancement_comment", "i_enhancement_comment")
    /\ UNCHANGED <<test, gets, githubToken, handler, req, verified, payload, milestones>>

IssuesEnhancementComment(p) ==
    /\ pc[p] = "i_enhancement_comment"
    /\ \E ok \in BOOLEAN : addComment(p, EnhancementComment, ok, "done")
    /\ UNCHANGED <<test, gets, githubToken, handler, req, verified, payload, milestones>>

\* The return after the documentation label left out.
IssuesDocumentation_NoReturn(p) ==
    /\ pc[p] = "i_documentation"
    /\ \E ok \in BOOLEAN :
         addLabel(p, "documentation", ok, IssuesLogStep(payload[p]), IssuesLogStep(payload[p]))
    /\ UNCHANGED <<test, gets, githubToken, handler, req, verified, payload, milestones>>

IssuesDocumentation(p) ==
    /\ pc[p] = "i_documentation"
    /\ \E ok \in BOOLEAN : addLabel(p, "documentation", ok, "done", "done")
    /\ UNCHANGED <<test, gets, githubToken, handler, req, verified, payload, milestones>>

\* A return after the bug label, as after the two labels before it.
IssuesBug_Return(p) ==
    /\ pc[p] = "i_bug"
    /\ \E ok \in BOOLEAN : addLabel(p, "bug", ok, "done", "done")
    /\ UNCHANGED <<test, gets, githubToken, handler, req, verified, payload, milestones>>

IssuesBug(p) ==
    /\ pc[p] = "i_bug"
    /\ LET next == IssuesLogStep(payload[p])
       IN  \E ok \in BOOLEAN : addLabel(p, "bug", ok, next, next)
    /\ UNCHANGED <<test, gets, githubToken, handler, req, verified, payload, milestones>>

\* The comment that asks for the log left out.
IssuesMissingLog_NoComment(p) ==
    /\ pc[p] = "i_missing_log"
    /\ \E ok \in BOOLEAN :
         addLabel(p, "missing-log", ok, IssuesVersionStep(payload[p]),
                  IssuesVersionStep(payload[p]))
    /\ UNCHANGED <<test, gets, githubToken, handler, req, verified, payload, milestones>>

IssuesMissingLog(p) ==
    /\ pc[p] = "i_missing_log"
    /\ \E ok \in BOOLEAN :
         addLabel(p, "missing-log", ok, "i_log_comment", IssuesVersionStep(payload[p]))
    /\ UNCHANGED <<test, gets, githubToken, handler, req, verified, payload, milestones>>

IssuesLogComment(p) ==
    /\ pc[p] = "i_log_comment"
    /\ \E ok \in BOOLEAN :
         addComment(p, MissingLogComment, ok, IssuesVersionStep(payload[p]))
    /\ UNCHANGED <<test, gets, githubToken, handler, req, verified, payload, milestones>>

IssuesMissingVersion(p) ==
    /\ pc[p] = "i_missing_version"
    /\ \E ok \in BOOLEAN :
         addLabel(p, "missing-version", ok, "i_version_comment", "done")
    /\ UNCHANGED <<test, gets, githubToken, handler, req, verified, payload, milestones>>

IssuesVersionComment(p) ==
    /\ pc[p] = "i_version_comment"
    /\ \E ok \in BOOLEAN : addComment(p, MissingVersionComment, ok, "done")
    /\ UNCHANGED <<test, gets, githubToken, handler, req, verified, payload, milestones>>

\* Where a handler goes with the milestones ms and the version found in
\* text: to the end without milestones, to pcOld when the first title
\* differs from the version, to pcCurrent when it is the version.
\* Every version taken for an old one.
AfterMilestones_NoCompare(ms, text, pcOld, pcCurrent) ==
    IF Len(ms) = 0 THEN "done" ELSE pcOld

AfterMilestones(ms, text, pcOld, pcCurrent) ==
    IF Len(ms) = 0 THEN "done"
    ELSE IF ms[1] # MajorVersion(text) THEN pcOld
    ELSE pcCurrent

IssuesMilestones(p) ==
    /\ pc[p] = "i_milestones"
    /\ \E ok \in BOOLEAN, list \in MilestoneLists :
         /\ getCompletedMilestones(p, ok, list)
         /\ Goto(p, AfterMilestones(milestones'[p], payload[p].Issue.Body,
                                    "i_unsupported", "i_current"))
    /\ UNCHANGED <<test, gets, githubToken, issue, handler, req, verified, payload>>

\* The issue closed also when the label has not been added.
IssuesUnsupported_CloseAnyway(p) ==
    /\ pc[p] = "i_unsupported"
    /\ \E ok \in BOOLEAN :
         addLabel(p, "unsupported-version", ok, "i_upgrade_comment", "i_close")
    /\ UNCHANGED <<test, gets, githubToken, handler, req, verified, payload, milestones>>

IssuesUnsupported(p) ==
    /\ pc[p] = "i_unsupported"
    /\ \E ok \in BOOLEAN :
         addLabel(p, "unsupported-version", ok, "i_upgrade_comment", "done")
    /\ UNCHANGED <<test, gets, githubToken, handler, req, verified, payload, milestones>>

\* The issue left open after the comment.
IssuesUpgradeComment_NoClose(p) ==
    /\ pc[p] = "i_upgrade_comment"
    /\ \E ok \in BOOLEAN :
         addComment(p, UpgradeComment(MajorVersion(payload[p].Issue.Body),
                                      milestones[p][1]), ok, "done")
    /\ UNCHANGED <<test, gets, githubToken, handler, req, verified, payload, milestones>>

IssuesUpgradeComment(p) ==
    /\ pc[p] = "i_upgrade_comment"
    /\ \E ok \in BOOLEAN :
         addComment(p, UpgradeComment(MajorVersion(payload[p].Issue.Body),
                                      milestones[p][1]), ok, "i_close")
    /\ UNCHANGED <<test, gets, githubToken, handler, req, verified, payload, milestones>>

IssuesClose(p) ==
    /\ pc[p] = "i_close"
    /\ \E ok \in BOOLEAN : closeIssue(p, ok, "done")
    /\ UNCHANGED <<test, gets, githubToken, handler, req, verified, payload, milestones>>

IssuesCurrent(p) ==
    /\ pc[p] = "i_current"
    /\ \E ok \in BOOLEAN : addLabel(p, milestones[p][1], ok, "done", "done")
    /\ UNCHANGED <<test, gets, githubToken, handler, req, verified, payload, milestones>>

(***************************************************************************)
(* issueCommentHandler after the decoding.                                 *)
(***************************************************************************)

PendingLabels == {"missing-version", "unsupported-version", "missing-log"}

HasVersionLabel(ev) ==
    "missing-version" \in ev.Issue.Labels \/ "unsupported-version" \in ev.Issue.Labels

\* The version taken from the body of the issue.
CommentVersionStep_IssueBody(ev) ==
    IF ~HasVersionLabel(ev) THEN "done"
    ELSE IF ev.Issue.Body = Nil \/ ev.Comment.Body = Nil THEN "panic"
    ELSE IF Len(Extracted[ev.Issue.Body]) = 0 THEN "done"
    ELSE "c_delete_missing_version"

\* issueCommentHandler from the version block on: a nil comment body is a
\* nil pointer dereference.
CommentVersionStep(ev) ==
    IF ~HasVersionLabel(ev) THEN "done"
    ELSE IF ev.Comment.Body = Nil THEN "panic"
    ELSE IF Len(Extracted[ev.Comment.Body]) = 0 THEN "done"
    ELSE "c_delete_missing_version"

\* The version block entered whatever the labels.
CommentLogStep_AnyLabels(ev) ==
    IF ev.Comment.Body = Nil THEN "panic"
    ELSE IF Len(Extracted[ev.Comment.Body]) = 0 THEN "done"
    ELSE "c_delete_missing_version"

\* The log link of the comment not looked at.
CommentLogStep_NoLogLink(ev) ==
    IF ev.Issue.Labels \cap PendingLabels = {} THEN "done"
    ELSE CommentVersionStep(ev)

\* issueCommentHandler from the check of the labels on.
CommentLogStep(ev) ==
    IF ev.Issue.Labels \cap PendingLabels = {} THEN "done"
    ELSE IF "missing-log" \in ev.Issue.Labels
    THEN IF ev.Comment.Body = Nil THEN "panic"
         ELSE IF Contains(ev.Comment.Body, LogLink) THEN "c_delete_missing_log"
         ELSE CommentVersionStep(ev)
    ELSE CommentVersionStep(ev)

\* The comparison of the two logins left out.
CommentCreated_AnyAuthor(p) ==
    /\ pc[p] = "decoded"
    /\ handler[p] = "/issue_comment"
    /\ LET ev == payload[p]
       IN  IF ev.Issue.User = Nil \/ ev.Comment.User = Nil THEN Goto(p, "panic")
           ELSE Goto(p, CommentLogStep(ev))
    /\ UNCHANGED <<test, gets, githubToken, issue, handler, req, verified, payload, milestones, w, calls>>

\* From the decoded event to the first API call: only the issue's creator
\* makes the handler act.
CommentCreated(p) ==
    /\ pc[p] = "decoded"
    /\ handler[p] = "/issue_comment"
    /\ LET ev == payload[p]
       IN  IF ev.Issue.User = Nil \/ ev.Comment.User = Nil THEN Goto(p, "panic")
           ELSE IF ev.Issue.User # ev.Comment.User THEN Goto(p, "done")
           ELSE Goto(p, CommentLogStep(ev))
    /\ UNCHANGED <<test, gets, githubToken, issue, handler, req, verified, payload, milestones, w, calls>>

CommentDeleteMissingLog(p) ==
    /\ pc[p] = "c_delete_missing_log"
    /\ \E ok \in BOOLEAN :
         deleteLabel(p, "missing-log", ok, CommentVersionStep(payload[p]))
    /\ UNCHANGED <<test, gets, githubToken, handler, req, verified, payload, milestones>>

CommentDeleteMissingVersion(p) ==
    /\ pc[p] = "c_delete_missing_version"
    /\ \E ok \in BOOLEAN :
         deleteLabel(p, "missing-version", ok,
                     AfterExtract(payload[p].Comment.Body, "done", "c_milestones"))
    /\ UNCHANGED <<test, gets, githubToken, handler, req, verified, payload, milestones>>

CommentMilestones(p) ==
    /\ pc[p] = "c_milestones"
    /\ \E ok \in BOOLEAN, list \in MilestoneLists :
         /\ getCompletedMilestones(p, ok, list)
         /\ Goto(p, AfterMilestones(milestones'[p], payload[p].Comment.Body,
                                    "c_unsupported", "c_current"))
    /\ UNCHANGED <<test, gets, githubToken, issue, handler, req, verified, payload>>

\* The upgrade comment whether the label has been added or not.
CommentUnsupported_Unguarded(p) ==
    /\ pc[p] = "c_unsupported"
    /\ \E ok \in BOOLEAN :
         addLabel(p, "unsupported-version", ok, "c_upgrade_comment", "c_upgrade_comment")
    /\ UNCHANGED <<test, gets, githubToken, handler, req, verified, payload, milestones>>

CommentUnsupported(p) ==
    /\ pc[p] = "c_unsupported"
    /\ \E ok \in BOOLEAN :
         addLabel(p, "unsupported-version", ok, "c_upgrade_comment", "done")
    /\ UNCHANGED <<test, gets, githubToken, handler, req, verified, payload, milestones>>

CommentUpgradeComment(p) ==
    /\ pc[p] = "c_upgrade_comment"
    /\ \E ok \in BOOLEAN :
         addComment(p, UpgradeComment(MajorVersion(payload[p].Comment.Body),
                                      milestones[p][1]), ok, "c_close")
    /\ UNCHANGED <<test, gets, githubToken, handler, req, verified, payload, milestones>>

CommentClose(p) ==
    /\ pc[p] = "c_close"
    /\ \E ok \in BOOLEAN : closeIssue(p, ok, "done")
    /\ UNCHANGED <<test, gets, githubToken, handler, req, verified, payload, milestones>>

\* The removal of unsupported-version left out.
CommentCurrent_NoDelete(p) ==
    /\ pc[p] = "c_current"
    /\ \E ok \in BOOLEAN : addLabel(p, milestones[p][1], ok, "done", "done")
    /\ UNCHANGED <<test, gets, githubToken, handler, req, verified, payload, milestones>>

CommentCurrent(p) ==
    /\ pc[p] = "c_current"
    /\ \E ok \in BOOLEAN :
         addLabel(p, milestones[p][1], ok, "c_delete_unsupported", "c_delete_unsupported")
    /\ UNCHANGED <<test, gets, githubToken, handler, req, verified, payload, milestones>>

CommentDeleteUnsupported(p) ==
    /\ pc[p] = "c_delete_unsupported"
    /\ \E ok \in BOOLEAN : deleteLabel(p, "unsupported-version", ok, "done")
    /\ UNCHANGED <<test, gets, githubToken, handler, req, verified, payload, milestones>>

(***************************************************************************)
(* Spec: one delivery, handled from its arrival to the handler's return.   *)
(***************************************************************************)

Next ==
    \E p \in {"r1"} :
        \/ Receive(p)
        \/ getGitHubToken(p)
        \/ VerifyBody(p)
        \/ DecodeEvent(p)
        \/ IssuesOpened(p)
        \/ IssuesEnhancement(p)
        \/ IssuesRequiresConfiguration(p)
        \/ IssuesEnhancementComment(p)
        \/ IssuesDocumentation(p)
        \/ IssuesBug(p)
        \/ IssuesMissingLog(p)
        \/ IssuesLogComment(p)
        \/ IssuesMissingVersion(p)
        \/ IssuesVersionComment(p)
        \/ IssuesMilestones(p)
        \/ IssuesUnsupported(p)
        \/ IssuesUpgradeComment(p)
        \/ IssuesClose(p)
        \/ IssuesCurrent(p)
        \/ CommentCreated(p)
        \/ CommentDeleteMissingLog(p)
        \/ CommentDeleteMissingVersion(p)
        \/ CommentMilestones(p)
        \/ CommentUnsupported(p)
        \/ CommentUpgradeComment(p)
        \/ CommentClose(p)
        \/ CommentCurrent(p)
        \/ CommentDeleteUnsupported(p)

Spec == Init /\ [][Next]_vars

(***************************************************************************)
(* Two deliveries of one event.  Both carry the same bytes, so both pass   *)
(* the head of the handler alike and decode to the same payload, with the  *)
(* labels the issue had when the event was made.                           *)
(***************************************************************************)

\* The pipelines of both handlers, from the decoded event on.
Pipeline(p) ==
    \/ IssuesOpened(p)
    \/ IssuesEnhancement(p)
    \/ IssuesRequiresConfiguration(p)
    \/ IssuesEnhancementComment(p)
    \/ IssuesDocumentation(p)
    \/ IssuesBug(p)
    \/ IssuesMissingLog(p)
    \/ IssuesLogComment(p)
    \/ IssuesMissingVersion(p)
    \/ IssuesVersionComment(p)
    \/ IssuesMilestones(p)
    \/ IssuesUnsupported(p)
    \/ IssuesUpgradeComment(p)
    \/ IssuesClose(p)
    \/ IssuesCurrent(p)
    \/ CommentCreated(p)
    \/ CommentDeleteMissingLog(p)
    \/ CommentDeleteMissingVersion(p)
    \/ CommentMilestones(p)
    \/ CommentUnsupported(p)
    \/ CommentUpgradeComment(p)
    \/ CommentClose(p)
    \/ CommentCurrent(p)
    \/ CommentDeleteUnsupported(p)

\* The labels of the issue when the event is made.
DeliveredLabelSets ==
    {{}, {"missing-log", "missing-version"}, {"unsupported-version"}, {"bug", "4.10"}}

\* The events delivered twice: opened issues and comments without nil
\* fields.
DeliveredEvents(h, ls) ==
    IF h = "/issues"
    THEN {ev \in IssuesEvents(ls) :
            ev.Action = "opened" /\ ev.Issue.Title # Nil /\ ev.Issue.Body # Nil}
    ELSE {ev \in IssueCommentEvents(ls) :
            /\ ev.Action = "created"
            /\ ev.Issue.User # Nil /\ ev.Comment.User # Nil /\ ev.Comment.Body # Nil}

\* The first delivery (r1) is verified and decoded; second is the position
\* of the other one (r2): "idle" when it has not arrived, "decoded" when it
\* has been verified and decoded as well.
InitDelivered(second) ==
    /\ githubToken = StoredToken
    /\ issue \in [labels : DeliveredLabelSets, comments : {<<>>}, state : {"open"},
                  state_reason : {""}]
    /\ \E h \in {"/issues", "/issue_comment"} :
         /\ handler = [p \in Procs |-> IF p = "r1" \/ second = "decoded" THEN h ELSE ""]
         /\ verified = [p \in Procs |->
                          IF p = "r1" \/ second = "decoded"
                          THEN [err |-> "", event |-> ExpectedEvent(h)] ELSE NoVerified]
         /\ \E ev \in DeliveredEvents(h, issue.labels) :
              payload = [p \in Procs |->
                           IF p = "r1" \/ second = "decoded" THEN ev ELSE NoPayload]
    /\ pc = [p \in Procs |-> IF p = "r1" THEN "decoded" ELSE second]
    /\ req = [p \in Procs |-> NoRequest]
    /\ milestones = [p \in Procs |-> <<>>]
    /\ w = [p \in Procs |-> 0]
    /\ calls = [p \in Procs |-> <<>>]
    /\ gets = [p \in Procs |-> <<>>]
    /\ test = NoTest

\* The tracker delivers the event again after the answer 500 to the first
\* delivery: the same bytes reach the same handler, which verifies and
\* decodes them as before.
Redeliver ==
    /\ pc["r1"] = "done"
    /\ w["r1"] = StatusInternalServerError
    /\ pc["r2"] = "idle"
    /\ pc' = [pc EXCEPT !["r2"] = "decoded"]
    /\ handler' = [handler EXCEPT !["r2"] = handler["r1"]]
    /\ verified' = [verified EXCEPT !["r2"] = verified["r1"]]
    /\ payload' = [payload EXCEPT !["r2"] = payload["r1"]]
    /\ UNCHANGED <<test, gets, githubToken, issue, req, milestones, w, calls>>

NextRedelivery == Redeliver \/ \E p \in Procs : Pipeline(p)

\* One delivery, and its redelivery after a failed run.
SpecRedelivery == InitDelivered("idle") /\ [][NextRedelivery]_vars

NextConcurrent == \E p \in Procs : Pipeline(p)

\* Two deliveries of one event handled at once, their steps interleaved.
SpecConcurrent == InitDelivered("decoded") /\ [][NextConcurrent]_vars

(***************************************************************************)
(* Two events that differ in the case of their letters only.               *)
(***************************************************************************)

\* Event ev of the handler at path h with its texts in capital letters:
\* title and body of an opened issue, the body of a comment.
EventInCapitals(h, ev) ==
    IF h = "/issues"
    THEN [ev EXCEPT !.Issue.Title = InCapitals[@], !.Issue.Body = InCapitals[@]]
    ELSE [ev EXCEPT !.Comment.Body = InCapitals[@]]

\* r1 has decoded an event, r2 the same event in capital letters.
InitCase ==
    /\ githubToken = StoredToken
    /\ issue \in [labels : DeliveredLabelSets, comments : {<<>>}, state : {"open"},
                  state_reason : {""}]
    /\ \E h \in {"/issues", "/issue_comment"} :
         /\ handler = [p \in Procs |-> h]
         /\ verified = [p \in Procs |-> [err |-> "", event |-> ExpectedEvent(h)]]
         /\ \E ev \in DeliveredEvents(h, issue.labels) :
              payload = [p \in Procs |->
                           IF p = "r1" THEN ev ELSE EventInCapitals(h, ev)]
    /\ pc = [p \in Procs |-> "decoded"]
    /\ req = [p \in Procs |-> NoRequest]
    /\ milestones = [p \in Procs |-> <<>>]
    /\ w = [p \in Procs |-> 0]
    /\ calls = [p \in Procs |-> <<>>]
    /\ gets = [p \in Procs |-> <<>>]
    /\ test = NoTest

SpecCase == InitCase /\ [][NextConcurrent]_vars

(***************************************************************************)
(* One request after the other: the instance keeps its credential cache.   *)
(***************************************************************************)

\* The handler of request p has returned (or its goroutine has panicked)
\* and the server takes the next request: nothing of the request is kept
\* but the package variable githubToken.  Further requests are followed as
\* long as the tracker has not been called, so that the issue is as it was.
ServeNext(p) ==
    /\ pc[p] \in {"done", "panic"}
    /\ calls[p] = <<>>
    /\ pc' = [pc EXCEPT ![p] = "idle"]
    /\ handler' = [handler EXCEPT ![p] = ""]
    /\ req' = [req EXCEPT ![p] = NoRequest]
    /\ verified' = [verified EXCEPT ![p] = NoVerified]
    /\ payload' = [payload EXCEPT ![p] = NoPayload]
    /\ milestones' = [milestones EXCEPT ![p] = <<>>]
    /\ w' = [w EXCEPT ![p] = 0]
    /\ calls' = [calls EXCEPT ![p] = <<>>]
    /\ gets' = [gets EXCEPT ![p] = <<>>]
    /\ UNCHANGED <<test, githubToken, issue>>

\* A fresh instance: the package variable githubToken has its zero value.
InitServer ==
    /\ Init
    /\ githubToken = [Token |-> "", Secret |-> ""]

NextServer == Next \/ ServeNext("r1")

SpecServer == InitServer /\ [][NextServer]_vars

(***************************************************************************)
(* The unit tests of extractVersion: a body is put together from lines,    *)
(* extractVersion is applied to it and its result is kept as matches.      *)
(***************************************************************************)

\* Lines of the bodies the tests use, and lines that name other programs
\* and the 3.x versions.
TestLines ==
    <<"and this worked great with i3 4.7.* I was running until recently",
      "Running i3 version: 4.10.1 (2015-03-29, branch \"4.10.1\") (pid 1552)",
      "i3 v4.9",
      "i3lock: 2.1",
      "i3status 2.9",
      "i3 3.e",
      ConfigLogLine,
      "i3 >= 4.8 doesn't play nice with xfce4-panel (=4.10.1) anymore.",
      "Not sure which version it is, though.">>

\* The most lines a body has.
MaxLines == 3

TestLineLists == UNION {[1..n -> 1..Len(TestLines)] : n \in 1..MaxLines}

\* The body made of the lines ls[k..], each of them ended by a newline.
RECURSIVE JoinLines(_, _)
JoinLines(ls, k) ==
    IF k > Len(ls) THEN "" ELSE TestLines[ls[k]] \o "\n" \o JoinLines(ls, k + 1)

InitTest ==
    /\ \E ls \in TestLineLists :
         test = [lines |-> ls, body |-> JoinLines(ls, 1), matches |-> <<>>,
                 ran |-> FALSE]
    /\ githubToken = StoredToken
    /\ issue = [labels |-> {}, comments |-> <<>>, state |-> "open", state_reason |-> ""]
    /\ pc = [p \in Procs |-> "idle"]
    /\ handler = [p \in Procs |-> ""]
    /\ req = [p \in Procs |-> NoRequest]
    /\ verified = [p \in Procs |-> NoVerified]
    /\ payload = [p \in Procs |-> NoPayload]
    /\ milestones = [p \in Procs |-> <<>>]
    /\ w = [p \in Procs |-> 0]
    /\ calls = [p \in Procs |-> <<>>]
    /\ gets = [p \in Procs |-> <<>>]

\* matches := extractVersion(body)
TestVersion ==
    /\ ~test.ran
    /\ test' = [test EXCEPT !.matches = extractVersion(test.body), !.ran = TRUE]
    /\ UNCHANGED <<githubToken, issue, pc, handler, req, verified, payload,
                   milestones, w, calls, gets>>

NextTest == TestVersion

SpecTest == InitTest /\ [][NextTest]_vars

(***************************************************************************)
(* Properties.                                                             *)
(***************************************************************************)

\* The event of request p has been decoded.
Decoded(p) == "Issue" \in DOMAIN payload[p]

\* The signature header of request r is "sha1=" and the hexadecimal text of
\* the HMAC of its body under secret.
SignatureMatches(r, secret) ==
    /\ HasPrefix(r.signature, "sha1=")
    /\ LET want == HexDecodeString(SubSeq(r.signature, 6, Len(r.signature)))
       IN  ~want.err /\ want.bytes = HmacSum(secret, r.body)

\* Request p runs the issue-opened pipeline.
IssuesRun(p) ==
    /\ handler[p] = "/issues"
    /\ payload[p].Action = "opened"
    /\ payload[p].Issue.Body # Nil
    /\ payload[p].Issue.Title # Nil

Snapshot(p) == payload[p].Issue.Labels

\* The API calls of request p, in order, without their outcome.
Attempted(p) == [i \in 1..Len(calls[p]) |-> <<calls[p][i].op, calls[p][i].arg>>]

AllSucceeded(p) == \A i \in 1..Len(calls[p]) : calls[p][i].ok

IsPrefix(a, b) == Len(a) <= Len(b) /\ a = SubSeq(b, 1, Len(a))

\* The call that adds label l, unless the snapshot has it.
AddUnlessPresent(p, l) == IF l \in Snapshot(p) THEN <<>> ELSE <<(<<"AddLabels", l>>)>>

\* What the pipeline reads off an issue's body: the program and the version
\* extractVersion finds ("" when it finds none), the boxes checked, the log
\* link.
BodyFacts ==
    [b \in IssueBodies \ {Nil} |->
        LET m  == extractVersion(b)
            lc == ToLower(b)
        IN  [product       |-> IF Len(m) = 0 THEN "" ELSE m[2],
             version       |-> IF Len(m) = 0 THEN "" ELSE TrimDots(m[3]),
             documentation |-> MatchString(documentationRegexp, lc),
             bug           |-> MatchString(bugRegexp, lc),
             configuration |-> MatchString(newConfigurationRegexp, lc),
             log           |-> Contains(lc, LogLink)]]

\* The feature requests among the issues, by body and title.
FeatureRequests ==
    {bt \in (IssueBodies \ {Nil}) \X (IssueTitles \ {Nil}) :
        IsEnhancement([Issue |-> [Body |-> bt[1], Title |-> bt[2]]])}

IssueProduct(p) == BodyFacts[payload[p].Issue.Body].product
IssueVersion(p) == BodyFacts[payload[p].Issue.Body].version
IsDocumentation(p) == BodyFacts[payload[p].Issue.Body].documentation
IsBug(p) == BodyFacts[payload[p].Issue.Body].bug
HasLogLink(p) == BodyFacts[payload[p].Issue.Body].log
IsFeatureRequest(p) ==
    <<payload[p].Issue.Body, payload[p].Issue.Title>> \in FeatureRequests

\* The positions of the calls of operation op in the run of p.
CallsOf(p, op) == {i \in 1..Len(calls[p]) : calls[p][i].op = op}

\* The calls of p after its call of ListMilestones.
AfterList(p) ==
    SubSeq(Attempted(p), Max(CallsOf(p, "ListMilestones")) + 1, Len(calls[p]))

\* C1: in both handlers the event is decoded and the tracker API is called
\* only after readAndVerifyBody has succeeded for that request, and a
\* request whose signature is not the HMAC of its body ends rejected (no 2xx
\* status), undecoded and without any API call.
C1_VerifiedBeforeDecodeAndCalls ==
    \A p \in Procs :
        /\ (Decoded(p) \/ calls[p] # <<>>) => verified[p].err = ""
        /\ ( /\ req[p] # NoRequest
             /\ pc[p] \notin {"idle", "token", "verify"}
             /\ ~SignatureMatches(req[p], StoredToken.Secret) )
           => /\ pc[p] = "done"
              /\ ResponseStatus(p) \in {StatusBadRequest, StatusInternalServerError}
              /\ calls[p] = <<>>
              /\ ~Decoded(p)

\* C1 witness: a request signed with another key has been rejected with 400.
C1_Witness ==
    /\ pc["r1"] = "done"
    /\ req["r1"].signature = "sha1=" \o HexEncode(HmacSum("0ther", req["r1"].body))
    /\ req["r1"].event = "issues"
    /\ verified["r1"].err = "X-Hub-Signature wrong"
    /\ w["r1"] = StatusBadRequest
    /\ calls["r1"] = <<>>

\* The cases in which readAndVerifyBody has to fail.
Unverifiable(r, secret) ==
    \/ r.event = ""
    \/ r.signature = ""
    \/ ~HasPrefix(r.signature, "sha1=")
    \/ HexDecodeString(SubSeq(r.signature, 6, Len(r.signature))).err
    \/ HexDecodeString(SubSeq(r.signature, 6, Len(r.signature))).bytes
         # HmacSum(secret, r.body)

\* C2: readAndVerifyBody fails, and the handler answers 400, when the event
\* header or the signature header is missing, the signature lacks the
\* "sha1=" prefix, is no hexadecimal text or differs from the HMAC-SHA1 of
\* the body; it returns the event type only when the decoded signature is
\* that HMAC.
C2_VerifyRejects ==
    \A p \in Procs :
        (req[p] # NoRequest /\ verified[p] # NoVerified)
        => /\ Unverifiable(req[p], githubToken.Secret)
              => /\ verified[p].err # ""
                 /\ pc[p] = "done"
                 /\ w[p] = StatusBadRequest
           /\ verified[p].err = ""
              => /\ SignatureMatches(req[p], githubToken.Secret)
                 /\ verified[p].event = req[p].event
                 /\ req[p].event # ""

\* C2 witness: a signature that is no hexadecimal text has been rejected
\* with 400.
C2_Witness ==
    /\ pc["r1"] = "done"
    /\ req["r1"].event = "issue_comment"
    /\ req["r1"].signature = "sha1=zz"
    /\ verified["r1"].err = "Error decoding X-Hub-Signature"
    /\ w["r1"] = StatusBadRequest

\* What the issue-opened pipeline calls for a feature request.
EnhancementCalls(p) ==
    AddUnlessPresent(p, "enhancement")
    \o (IF BodyFacts[payload[p].Issue.Body].configuration
        THEN AddUnlessPresent(p, "requires-configuration") ELSE <<>>)
    \o <<(<<"CreateComment", EnhancementComment>>)>>

\* C3: when the checked "feature request" box or the title shows a feature
\* request, the run calls nothing but: add "enhancement", add
\* "requires-configuration" if the body asks for it, post the policy
\* comment (a label the snapshot has is not added again); no other label,
\* no milestone listing, no closing, also with a checked bug box.
C3_EnhancementOnly ==
    \A p \in Procs :
        (IssuesRun(p) /\ IsFeatureRequest(p))
        => /\ IsPrefix(Attempted(p), EnhancementCalls(p))
           /\ pc[p] = "done" => Attempted(p) = EnhancementCalls(p)
           /\ issue.state = "open"

\* C3 witness: a body with the feature box and the bug box checked has got
\* the label and the comment, and the run is over.
C3_Witness ==
    /\ pc["r1"] = "done"
    /\ IssuesRun("r1")
    /\ payload["r1"].Issue.Body = "[X] Feature Request\n[x] bug\ni3 4.9"
    /\ payload["r1"].Issue.Title = "i3 crashes on restart"
    /\ calls["r1"] = <<[op |-> "AddLabels", arg |-> "enhancement", ok |-> TRUE],
                       [op |-> "CreateComment", arg |-> EnhancementComment, ok |-> TRUE]>>

\* C4: when no feature request is detected and the documentation box is
\* checked, the run calls nothing but the adding of "documentation" (not
\* even that when the snapshot has it): no comment, no other label, no
\* milestone listing, no closing, also with a checked bug box.
C4_DocumentationOnly ==
    \A p \in Procs :
        (IssuesRun(p) /\ ~IsFeatureRequest(p) /\ IsDocumentation(p))
        => /\ IsPrefix(Attempted(p), AddUnlessPresent(p, "documentation"))
           /\ pc[p] = "done" => Attempted(p) = AddUnlessPresent(p, "documentation")
           /\ issue.comments = <<>>
           /\ issue.state = "open"

\* C4 witness: a body with the documentation box and the bug box checked
\* has got the documentation label alone.
C4_Witness ==
    /\ pc["r1"] = "done"
    /\ IssuesRun("r1")
    /\ IsBug("r1")
    /\ calls["r1"] = <<[op |-> "AddLabels", arg |-> "documentation", ok |-> TRUE]>>
    /\ issue.labels = Snapshot("r1") \cup {"documentation"}

\* C5: when neither a feature request nor a documentation request is
\* detected and the bug box is checked, the run adds "bug" first and goes
\* on to the log check and the version check: at its end it has asked for
\* "missing-log" when the body has no log link, for "missing-version" when
\* no version is found, and for the milestones when the version is one of
\* i3 (a label the snapshot has is not added again).
C5_BugContinues ==
    \A p \in Procs :
        ( /\ pc[p] = "done"
          /\ IssuesRun(p) /\ ~IsFeatureRequest(p) /\ ~IsDocumentation(p)
          /\ IsBug(p) )
        => /\ "bug" \notin Snapshot(p)
              => Len(calls[p]) >= 1 /\ Attempted(p)[1] = <<"AddLabels", "bug">>
           /\ (~HasLogLink(p) /\ "missing-log" \notin Snapshot(p))
              => \E i \in CallsOf(p, "AddLabels") : calls[p][i].arg = "missing-log"
           /\ (IssueProduct(p) = "" /\ "missing-version" \notin Snapshot(p))
              => \E i \in CallsOf(p, "AddLabels") : calls[p][i].arg = "missing-version"
           /\ IssueProduct(p) = "i3" => CallsOf(p, "ListMilestones") # {}

\* C5 witness: after the bug label the run has added both missing labels.
C5_Witness ==
    /\ pc["r1"] = "done"
    /\ IssuesRun("r1")
    /\ Len(calls["r1"]) = 5
    /\ Attempted("r1")[1] = <<"AddLabels", "bug">>
    /\ Attempted("r1")[2] = <<"AddLabels", "missing-log">>
    /\ Attempted("r1")[4] = <<"AddLabels", "missing-version">>

\* Scenario A: an opened issue that is neither a feature request nor a
\* documentation request, without log link and version, missing-log and
\* missing-version not in the snapshot; the run is over and all its calls
\* succeeded.
ScenarioA(p) ==
    /\ pc[p] = "done"
    /\ AllSucceeded(p)
    /\ IssuesRun(p)
    /\ Snapshot(p) \cap {"missing-log", "missing-version"} = {}
    /\ ~IsFeatureRequest(p) /\ ~IsDocumentation(p)
    /\ ~HasLogLink(p)
    /\ IssueProduct(p) = ""

MissingCalls ==
    <<(<<"AddLabels", "missing-log">>), (<<"CreateComment", MissingLogComment>>),
      (<<"AddLabels", "missing-version">>), (<<"CreateComment", MissingVersionComment>>)>>

\* C6 as stated: in scenario A the run calls exactly: add "missing-log",
\* post the log comment, add "missing-version", post the version comment.
C6_ScenarioA_AsStated ==
    \A p \in Procs : ScenarioA(p) => Attempted(p) = MissingCalls

\* C6: in scenario A the run calls exactly, in this order: add
\* "missing-log", post the log comment, add "missing-version", post the
\* version comment, after the adding of "bug" when the bug box is checked
\* and the snapshot has no "bug"; it lists no milestones and leaves the
\* issue open.
C6_ScenarioA ==
    \A p \in Procs :
        ScenarioA(p)
        => /\ Attempted(p)
                = (IF IsBug(p) THEN AddUnlessPresent(p, "bug") ELSE <<>>) \o MissingCalls
           /\ issue.state = "open"
           /\ issue.comments = <<MissingLogComment, MissingVersionComment>>

\* C6 witness: scenario A with the bug box checked: five calls, the two
\* labels and the two comments after the bug label.
C6_Witness ==
    /\ ScenarioA("r1")
    /\ Attempted("r1") = <<(<<"AddLabels", "bug">>)>> \o MissingCalls
    /\ {"bug", "missing-log", "missing-version"} \subseteq issue.labels

\* The comment at position i of the run of p comes right after the
\* successful adding of label l, which the snapshot did not have.
FollowsNewLabel(p, i, l) ==
    /\ i > 1
    /\ calls[p][i - 1] = [op |-> "AddLabels", arg |-> l, ok |-> TRUE]
    /\ l \notin Snapshot(p)

\* C7: in the issue-opened pipeline the log comment is posted only right
\* after a successful adding of "missing-log", the version comment only
\* right after a successful adding of "missing-version", and the label was
\* not in the snapshot; with the label in the snapshot or a failed adding
\* there is no such comment.
C7_CommentOnlyIfNewlyAdded ==
    \A p \in Procs :
        handler[p] = "/issues"
        => \A i \in CallsOf(p, "CreateComment") :
              /\ calls[p][i].arg = MissingLogComment
                 => FollowsNewLabel(p, i, "missing-log")
              /\ calls[p][i].arg = MissingVersionComment
                 => FollowsNewLabel(p, i, "missing-version")

\* C7 witness: the adding of "missing-log" failed and that of
\* "missing-version" succeeded: the run is over with the version comment
\* alone.
C7_Witness ==
    /\ pc["r1"] = "done"
    /\ handler["r1"] = "/issues"
    /\ calls["r1"] = <<[op |-> "AddLabels", arg |-> "missing-log", ok |-> FALSE],
                       [op |-> "AddLabels", arg |-> "missing-version", ok |-> TRUE],
                       [op |-> "CreateComment", arg |-> MissingVersionComment, ok |-> TRUE]>>

\* A call of the enforcement of the supported version.
IsEnforcement(c) ==
    \/ c.op = "AddLabels" /\ c.arg \in {"unsupported-version"} \cup MilestoneTitles
    \/ c.op = "CreateComment"
       /\ c.arg \notin {EnhancementComment, MissingLogComment, MissingVersionComment}
    \/ c.op = "EditIssue"

\* C8: in the issue-opened pipeline a call that enforces the supported
\* version (adding "unsupported-version" or the milestone's label, the
\* upgrade comment, the closing) is made only when the program found is
\* "i3" and the list of closed milestones, fetched before, is not empty;
\* for i3status and i3lock the run does not list the milestones; after an
\* empty list the run makes no call and changes nothing.
C8_EnforcementGuard ==
    \A p \in Procs :
        IssuesRun(p)
        => /\ \A i \in 1..Len(calls[p]) :
                 IsEnforcement(calls[p][i])
                 => /\ IssueProduct(p) = "i3"
                    /\ milestones[p] # <<>>
                    /\ \E j \in CallsOf(p, "ListMilestones") : j < i /\ calls[p][j].ok
           /\ CallsOf(p, "ListMilestones") # {} => IssueProduct(p) = "i3"
           /\ \A j \in CallsOf(p, "ListMilestones") :
                 milestones[p] = <<>>
                 => /\ j = Len(calls[p])
                    /\ pc[p] = "done"
                    /\ issue.state = "open"

\* C8 witness: the list of closed milestones came back empty and the run
\* is over, the listing being its last call.
C8_Witness ==
    /\ pc["r1"] = "done"
    /\ IssuesRun("r1")
    /\ IssueProduct("r1") = "i3"
    /\ Len(calls["r1"]) >= 1
    /\ calls["r1"][Len(calls["r1"])] = [op |-> "ListMilestones", arg |-> "closed", ok |-> TRUE]
    /\ milestones["r1"] = <<>>

\* The run of p has listed the closed milestones, found some, and the
\* issue's body has a version of i3.
Judged(p) ==
    /\ IssuesRun(p)
    /\ CallsOf(p, "ListMilestones") # {}
    /\ milestones[p] # <<>>
    /\ IssueProduct(p) = "i3"

\* C9: when the version of i3 found in the body, without trailing dots,
\* is the title of the first closed milestone, the run after the listing
\* adds the label of that title (unless the snapshot has it) and nothing
\* else: no "unsupported-version", no comment, no closing.
C9_CurrentVersion ==
    \A p \in Procs :
        (Judged(p) /\ IssueVersion(p) = milestones[p][1])
        => /\ IsPrefix(AfterList(p), AddUnlessPresent(p, milestones[p][1]))
           /\ pc[p] = "done" => AfterList(p) = AddUnlessPresent(p, milestones[p][1])
           /\ issue.state = "open"
           /\ issue.comments \in {<<>>, <<MissingLogComment>>}

\* C9 witness: version 4.10 with 4.10 the first closed milestone: the
\* label 4.10 is on the issue and the run is over.
C9_Witness ==
    /\ pc["r1"] = "done"
    /\ Judged("r1")
    /\ IssueVersion("r1") = "4.10"
    /\ milestones["r1"] = <<"4.10", "4.9">>
    /\ AfterList("r1") = <<(<<"AddLabels", "4.10">>)>>
    /\ "4.10" \in issue.labels

\* The calls of scenario B after the listing, the first of them with
\* outcome added.
UnsupportedCalls(p, added) ==
    <<(<<"AddLabels", "unsupported-version">>)>>
    \o (IF added
        THEN <<(<<"CreateComment", UpgradeComment(IssueVersion(p), milestones[p][1])>>),
               (<<"EditIssue", "closed">>)>>
        ELSE <<>>)

\* C10: when the version of i3 found in the body differs from the title of
\* the first closed milestone and the snapshot has no "unsupported-version",
\* the run after the listing adds "unsupported-version" and, the label
\* added, posts the upgrade comment that names the version and the title,
\* then closes the issue (state closed, reason not planned), in this order
\* and with no label of a milestone; with "unsupported-version" in the
\* snapshot it calls nothing: no comment, no closing.
C10_ScenarioB ==
    \A p \in Procs :
        (Judged(p) /\ IssueVersion(p) # milestones[p][1])
        => IF "unsupported-version" \in Snapshot(p)
           THEN AfterList(p) = <<>> /\ issue.state = "open"
           ELSE /\ IsPrefix(AfterList(p), UnsupportedCalls(p, TRUE))
                /\ pc[p] = "done"
                   => LET m == Max(CallsOf(p, "ListMilestones"))
                      IN  /\ AfterList(p) = UnsupportedCalls(p, calls[p][m + 1].ok)
                          /\ calls[p][m + 1].ok
                             => /\ Contains(calls[p][m + 2].arg,
                                            "from " \o IssueVersion(p) \o " to "
                                              \o milestones[p][1])
                                /\ calls[p][m + 3].reason = "not_planned"
                                /\ calls[p][m + 3].ok
                                   => /\ issue.state = "closed"
                                      /\ issue.state_reason = "not_planned"

\* C10 witness: version 4.9 with 4.10 the first closed milestone: the
\* issue has the label and the comment and is closed as not planned.
C10_Witness ==
    /\ pc["r1"] = "done"
    /\ Judged("r1")
    /\ IssueVersion("r1") = "4.9"
    /\ milestones["r1"][1] = "4.10"
    /\ AfterList("r1") = UnsupportedCalls("r1", TRUE)
    /\ AllSucceeded("r1")
    /\ "unsupported-version" \in issue.labels
    /\ UpgradeComment("4.9", "4.10") = issue.comments[Len(issue.comments)]
    /\ issue.state = "closed" /\ issue.state_reason = "not_planned"

\* What issueCommentHandler reads off a comment's body: the program and the
\* version extractVersion finds ("" when it finds none), the log link.
CommentFacts ==
    [b \in CommentBodies \ {Nil} |->
        LET m == extractVersion(b)
        IN  [product |-> IF Len(m) = 0 THEN "" ELSE m[2],
             version |-> IF Len(m) = 0 THEN "" ELSE TrimDots(m[3]),
             log     |-> Contains(b, LogLink)]]

\* Request p runs the comment pipeline.
CommentRun(p) == handler[p] = "/issue_comment" /\ Decoded(p)

\* The comment of request p is by the issue's creator and has a body.
ByAuthor(p) ==
    /\ CommentRun(p)
    /\ payload[p].Issue.User # Nil
    /\ payload[p].Comment.User = payload[p].Issue.User
    /\ payload[p].Comment.Body # Nil

CommentProduct(p) == CommentFacts[payload[p].Comment.Body].product
CommentVersion(p) == CommentFacts[payload[p].Comment.Body].version
CommentHasLogLink(p) == CommentFacts[payload[p].Comment.Body].log

\* C11: in the comment pipeline, when the comment's author is not the
\* issue's author, the run makes no API call and the issue is as it was,
\* whatever the comment's text and the issue's labels.
C11_AuthorGate ==
    \A p \in Procs :
        (CommentRun(p) /\ payload[p].Issue.User # payload[p].Comment.User)
        => /\ calls[p] = <<>>
           /\ pc[p] \in {"decoded", "done", "panic"}
           /\ issue = [labels |-> Snapshot(p), comments |-> <<>>, state |-> "open",
                       state_reason |-> ""]

\* C11 witness: bob's comment with a log link and a version on alice's
\* issue, which has all three pending labels, is done without a call.
C11_Witness ==
    /\ pc["r1"] = "done"
    /\ CommentRun("r1")
    /\ payload["r1"].Issue.User = "alice"
    /\ payload["r1"].Comment.User = "bob"
    /\ payload["r1"].Comment.Body
         = "https://logs.i3wm.org/logs/6.bz2 and i3 v4.10 (was i3 v4.9)"
    /\ {"missing-log", "missing-version", "unsupported-version"} \subseteq Snapshot("r1")
    /\ calls["r1"] = <<>>

\* C12: in the comment pipeline, when the snapshot has none of
\* "missing-version", "unsupported-version", "missing-log", the run makes
\* no API call, also for an author's comment with a log link or an old
\* version.
C12_NothingPending ==
    \A p \in Procs :
        ( /\ CommentRun(p)
          /\ Snapshot(p) \cap {"missing-version", "unsupported-version", "missing-log"} = {} )
        => /\ calls[p] = <<>>
           /\ pc[p] \in {"decoded", "done", "panic"}

\* C12 witness: the author's comment has a log link and a version, the
\* snapshot only the label 4.10, and the run is over without a call.
C12_Witness ==
    /\ pc["r1"] = "done"
    /\ ByAuthor("r1")
    /\ CommentHasLogLink("r1")
    /\ CommentProduct("r1") = "i3"
    /\ Snapshot("r1") = {"4.10"}
    /\ calls["r1"] = <<>>

\* The removal of "missing-log", when the comment pipeline has to make it.
LogRemoval(p) ==
    IF "missing-log" \in Snapshot(p) /\ CommentHasLogLink(p)
    THEN <<(<<"RemoveLabel", "missing-log">>)>> ELSE <<>>

\* C13: for an author's comment, "missing-log" is removed exactly when the
\* snapshot has "missing-log" and the comment has the log link; the removal
\* is then the first call of the run, whether or not the comment has a
\* version.
C13_MissingLogRemoved ==
    \A p \in Procs :
        ByAuthor(p)
        => /\ (\E i \in CallsOf(p, "RemoveLabel") : calls[p][i].arg = "missing-log")
              => LogRemoval(p) # <<>>
           /\ (LogRemoval(p) # <<>> /\ pc[p] \notin {"decoded", "c_delete_missing_log"})
              => /\ IsPrefix(LogRemoval(p), Attempted(p))
                 /\ calls[p][1].ok => "missing-log" \notin issue.labels

\* C13 witness: the comment has a log link and no version; missing-log is
\* removed, missing-version stays and the run is over.
C13_Witness ==
    /\ pc["r1"] = "done"
    /\ ByAuthor("r1")
    /\ CommentProduct("r1") = ""
    /\ Snapshot("r1") = {"missing-log", "missing-version"}
    /\ calls["r1"] = <<[op |-> "RemoveLabel", arg |-> "missing-log", ok |-> TRUE]>>
    /\ issue.labels = {"missing-version"}

\* C14: for an author's comment on an issue whose snapshot has
\* "missing-version" or "unsupported-version": when the comment's body has
\* no version, the run makes no call but the removal of "missing-log" and
\* "missing-version" stays; when it has one, the removal of
\* "missing-version" (if the snapshot has it) is the first call after that
\* of "missing-log", before the listing of the milestones, and is made for
\* every program, list of milestones and version.
C14_VersionStep ==
    \A p \in Procs :
        ( /\ ByAuthor(p)
          /\ Snapshot(p) \cap {"missing-version", "unsupported-version"} # {} )
        => IF CommentProduct(p) = ""
           THEN /\ IsPrefix(Attempted(p), LogRemoval(p))
                /\ "missing-version" \in Snapshot(p) => "missing-version" \in issue.labels
           ELSE pc[p] \notin {"decoded", "c_delete_missing_log", "c_delete_missing_version"}
                => IF "missing-version" \in Snapshot(p)
                   THEN /\ IsPrefix(LogRemoval(p) \o <<(<<"RemoveLabel", "missing-version">>)>>,
                                    Attempted(p))
                        /\ calls[p][Len(LogRemoval(p)) + 1].ok
                           => "missing-version" \notin issue.labels
                   ELSE \A i \in CallsOf(p, "RemoveLabel") :
                           calls[p][i].arg # "missing-version"

\* C14 witness: the comment names i3status: missing-version is removed and
\* the run is over without a listing of the milestones.
C14_Witness ==
    /\ pc["r1"] = "done"
    /\ ByAuthor("r1")
    /\ CommentProduct("r1") = "i3status"
    /\ Snapshot("r1") = {"missing-version"}
    /\ calls["r1"] = <<[op |-> "RemoveLabel", arg |-> "missing-version", ok |-> TRUE]>>
    /\ issue.labels = {}

\* The comment run of p has listed the closed milestones, found some, and
\* the comment has a version of i3.
CommentJudged(p) ==
    /\ ByAuthor(p)
    /\ CallsOf(p, "ListMilestones") # {}
    /\ milestones[p] # <<>>
    /\ CommentProduct(p) = "i3"

\* The calls of the comment pipeline after the listing for the version of
\* the first closed milestone.
CurrentCalls(p) ==
    AddUnlessPresent(p, milestones[p][1])
    \o (IF "unsupported-version" \in Snapshot(p)
        THEN <<(<<"RemoveLabel", "unsupported-version">>)>> ELSE <<>>)

\* The calls of the comment pipeline after the listing for another
\* version, the first of them with outcome added.
OutdatedCalls(p, added) ==
    <<(<<"AddLabels", "unsupported-version">>)>>
    \o (IF added
        THEN <<(<<"CreateComment", UpgradeComment(CommentVersion(p), milestones[p][1])>>),
               (<<"EditIssue", "closed">>)>>
        ELSE <<>>)

\* C15: in the comment pipeline, when the comment's version of i3 is the
\* title of the first closed milestone, the run after the listing adds the
\* label of that title and removes "unsupported-version" (each unless the
\* snapshot makes it needless) and does not close the issue; when it is
\* not, the run adds "unsupported-version" and, only if that call added the
\* label, posts the upgrade comment and closes the issue, and adds no label
\* of a milestone.
C15_ScenarioC ==
    \A p \in Procs :
        CommentJudged(p)
        => IF CommentVersion(p) = milestones[p][1]
           THEN /\ IsPrefix(AfterList(p), CurrentCalls(p))
                /\ pc[p] = "done" => AfterList(p) = CurrentCalls(p)
                /\ issue.state = "open"
           ELSE IF "unsupported-version" \in Snapshot(p)
           THEN AfterList(p) = <<>> /\ issue.state = "open"
           ELSE /\ IsPrefix(AfterList(p), OutdatedCalls(p, TRUE))
                /\ pc[p] = "done"
                   => AfterList(p)
                        = OutdatedCalls(p, calls[p][Max(CallsOf(p, "ListMilestones")) + 1].ok)

\* C15 witness: the author's comment has version 4.10, 4.10 is the first
\* closed milestone and the issue had unsupported-version: it now has the
\* label 4.10 instead and is open.
C15_Witness ==
    /\ pc["r1"] = "done"
    /\ CommentJudged("r1")
    /\ CommentVersion("r1") = "4.10"
    /\ milestones["r1"][1] = "4.10"
    /\ Snapshot("r1") = {"unsupported-version"}
    /\ AfterList("r1") = <<(<<"AddLabels", "4.10">>), (<<"RemoveLabel", "unsupported-version">>)>>
    /\ issue.labels = {"4.10"}
    /\ issue.state = "open"

\* C16 as stated: in both pipelines a failed API call is the last call of
\* its run.
C16_FailureAborts_AsStated ==
    \A p \in Procs :
        \A i \in 1..Len(calls[p]) : ~calls[p][i].ok => i = Len(calls[p])

\* C17: a pipeline run in which an API call has failed answers 500,
\* whichever call it was and whatever the run does after it; a run that is
\* over and whose calls all succeeded answers 200.
C17_FailureAnswers500 ==
    \A p \in Procs :
        Decoded(p)
        => /\ ~AllSucceeded(p) => w[p] = StatusInternalServerError
           /\ (pc[p] = "done" /\ AllSucceeded(p)) => ResponseStatus(p) = StatusOK

\* C17 witness: the first call of the run failed, its last succeeded, and
\* the answer is 500.
C17_Witness ==
    /\ pc["r1"] = "done"
    /\ Decoded("r1")
    /\ Len(calls["r1"]) >= 2
    /\ ~calls["r1"][1].ok
    /\ calls["r1"][Len(calls["r1"])].ok
    /\ ResponseStatus("r1") = StatusInternalServerError

\* The labels of an issue with labels ls after the calls i.. of cs, all of
\* them successful.
RECURSIVE LabelsAfter(_, _, _)
LabelsAfter(cs, i, ls) ==
    IF i > Len(cs) THEN ls
    ELSE LabelsAfter(cs, i + 1,
                     IF cs[i].op = "AddLabels" THEN ls \cup {cs[i].arg}
                     ELSE IF cs[i].op = "RemoveLabel" THEN ls \ {cs[i].arg}
                     ELSE ls)

\* The comments the calls i.. of cs post, all of them successful.
RECURSIVE CommentsAfter(_, _)
CommentsAfter(cs, i) ==
    IF i > Len(cs) THEN <<>>
    ELSE (IF cs[i].op = "CreateComment" THEN <<cs[i].arg>> ELSE <<>>)
         \o CommentsAfter(cs, i + 1)

\* The issue after one run that made the calls cs, all of them successful,
\* on an open issue with labels ls and no comment.
IssueAfter(cs, ls) ==
    [labels       |-> LabelsAfter(cs, 1, ls),
     comments     |-> CommentsAfter(cs, 1),
     state        |-> IF \E i \in 1..Len(cs) : cs[i].op = "EditIssue" THEN "closed" ELSE "open",
     state_reason |-> IF \E i \in 1..Len(cs) : cs[i].op = "EditIssue"
                      THEN "not_planned" ELSE ""]

\* C18 as stated: after an invocation of add-label whose call added the
\* label, a second invocation for the same label and issue (here that of
\* the redelivery) makes no AddLabels call; remove-label makes no
\* RemoveLabel call for a label the issue's label set lacks.
C18_HelpersIdempotent_AsStated ==
    /\ \A i \in CallsOf("r1", "AddLabels") :
          calls["r1"][i].ok
          => \A j \in CallsOf("r2", "AddLabels") : calls["r2"][j].arg # calls["r1"][i].arg
    /\ \A p \in Procs :
          \A i \in CallsOf(p, "RemoveLabel") : calls[p][i].arg \in Snapshot(p)

\* The redelivery is over, all its calls succeeded, after a first run in
\* which a call failed; the milestones are those the first run saw.
Redelivered ==
    /\ pc["r1"] = "done" /\ pc["r2"] = "done"
    /\ ~AllSucceeded("r1")
    /\ AllSucceeded("r2")
    /\ \A i \in CallsOf("r1", "ListMilestones") :
          calls["r1"][i].ok => milestones["r1"] = milestones["r2"]

\* C19 as stated: after a run with a failed call and a redelivery whose
\* calls all succeed, the issue has the labels, the comments and the state
\* that one successful run leaves.
C19_RedeliveryResumes_AsStated ==
    Redelivered => issue = IssueAfter(calls["r2"], Snapshot("r2"))

\* C20: when two runs for the same event, started on the same snapshot,
\* are both over, all their calls having succeeded with the same list of
\* milestones, the labels and the state of the issue are those one of the
\* runs alone leaves, however their calls were interleaved.
C20_ConcurrentRunsConverge ==
    ( /\ pc["r1"] = "done" /\ pc["r2"] = "done"
      /\ AllSucceeded("r1") /\ AllSucceeded("r2")
      /\ milestones["r1"] = milestones["r2"] )
    => /\ issue.labels = IssueAfter(calls["r1"], Snapshot("r1")).labels
       /\ issue.state = IssueAfter(calls["r1"], Snapshot("r1")).state
       /\ issue.state_reason = IssueAfter(calls["r1"], Snapshot("r1")).state_reason
       /\ calls["r2"] = calls["r1"]

\* C20 witness: both runs found an old version: each added
\* unsupported-version, commented and closed; the issue is closed and has
\* the label once.
C20_Witness ==
    /\ pc["r1"] = "done" /\ pc["r2"] = "done"
    /\ AllSucceeded("r1") /\ AllSucceeded("r2")
    /\ handler["r1"] = "/issues"
    /\ \E i \in 1..Len(calls["r1"]) : calls["r1"][i].op = "EditIssue"
    /\ \E i \in 1..Len(calls["r2"]) : calls["r2"][i].op = "EditIssue"
    /\ issue.labels = Snapshot("r1") \cup {"unsupported-version"}
    /\ issue.state = "closed"
    /\ Len(issue.comments) = 2

(***************************************************************************)
(* extractVersion on the bodies of the unit tests.                         *)
(***************************************************************************)

\* What a reader finds in each of TestLines: the program it names with a
\* version ("" for none), that version in its first two components, and
\* the version as a number (major * 100 + minor; 3.e is older than 4.x).
LineProgram == <<"i3", "i3", "i3", "i3lock", "i3status", "i3", "", "", "">>
LineVersion == <<"4.7", "4.10", "4.9", "2.1", "2.9", "3.e", "", "", "">>
LineRank    == <<407, 410, 409, 201, 209, 305, 0, 0, 0>>

\* The positions of the lines of the test's body that name a version.
Mentions == {k \in 1..Len(test.lines) : LineProgram[test.lines[k]] # ""}

\* The programs the body names with a version.
MentionedPrograms == {LineProgram[test.lines[k]] : k \in Mentions}

\* A mention of the body no other mention of which is of a later version.
Newest == CHOOSE k \in Mentions :
            \A n \in Mentions : LineRank[test.lines[n]] <= LineRank[test.lines[k]]

\* C21: when all the versions a text mentions are of one program,
\* extractVersion returns that program and the greatest of the versions,
\* numbers compared as numbers (4.10 is after 4.9 and 4.7), in whatever
\* order the text mentions them.
C21_NumericMaximum ==
    (test.ran /\ Cardinality(MentionedPrograms) = 1)
        => /\ Len(test.matches) = 3
           /\ test.matches[2] = LineProgram[test.lines[Newest]]
           /\ test.matches[3] = LineVersion[test.lines[Newest]]

\* 4.10 is mentioned first, 4.9 and 4.7 after it, and 4.10 is returned.
C21_Witness ==
    /\ test.ran
    /\ test.lines = <<2, 3, 1>>
    /\ test.matches = <<"", "i3", "4.10">>
\* The position of the line of the config parser in TestLines.
ConfigLine == CHOOSE k \in 1..Len(TestLines) : TestLines[k] = ConfigLogLine

HasConfigLine == \E k \in 1..Len(test.lines) : test.lines[k] = ConfigLine

\* C22: the log line of the config parser ("... # Before i3 v4.8, we used
\* to recommend this one as the default:") is taken out before the search:
\* a text that mentions no version but on such lines gives the empty
\* result, and when the text has other mentions the result is the program
\* and the version of one of them, never the 4.8 of the log line.
C22_ConfigLineSuppressed ==
    (test.ran /\ HasConfigLine)
        => IF Mentions = {}
           THEN test.matches = <<>>
           ELSE /\ Len(test.matches) = 3
                /\ \E k \in Mentions :
                      /\ test.matches[2] = LineProgram[test.lines[k]]
                      /\ test.matches[3] = LineVersion[test.lines[k]]

\* The body of TestLogFalsePositive: the log line between lines that
\* mention no version; nothing is extracted.
C22_Witness ==
    /\ test.ran
    /\ test.lines = <<9, ConfigLine, 9>>
    /\ test.matches = <<>>
\* C23: when a text mentions versions of more than one program,
\* extractVersion returns the first match of the text as it is (the whole
\* match, its program, its version): not the greatest version and not a
\* later program, however many mentions of the first program come before
\* the second program.
C23_FirstMatchOfSeveralPrograms ==
    (test.ran /\ Cardinality(MentionedPrograms) > 1)
        => /\ Len(test.matches) = 3
           /\ test.matches[1] # ""
           /\ Contains(TestLines[test.lines[Min(Mentions)]], test.matches[1])
           /\ test.matches[2] = LineProgram[test.lines[Min(Mentions)]]
           /\ test.matches[3] = LineVersion[test.lines[Min(Mentions)]]

\* i3 4.9, then i3 4.10, then i3lock 2.1: the result is i3 4.9.
C23_Witness ==
    /\ test.ran
    /\ test.lines = <<3, 2, 4>>
    /\ test.matches = <<"i3 v4.9", "i3", "4.9">>
(***************************************************************************)
(* Which deliveries make the handlers act.                                 *)
(***************************************************************************)

\* The handler of request p has returned.
Returned(p) == pc[p] = "done"

\* Request p passed the signature check with event type e.
VerifiedAs(p, e) == verified[p].err = "" /\ verified[p].event = e

\* C24: the issues handler calls the tracker only for a verified event of
\* type "issues" with the action "opened".  A verified ping is answered
\* 200 without a call, a verified event of another type 400 without a
\* call, and an "issues" event with another action (edited, closed) 200
\* without a call.
C24_IssuesHandlerActsOnOpened ==
    \A p \in Procs :
        handler[p] = "/issues" =>
            /\ calls[p] # <<>> =>
                   /\ VerifiedAs(p, "issues")
                   /\ Decoded(p)
                   /\ payload[p].Action = "opened"
            /\ (Returned(p) /\ VerifiedAs(p, "ping")) => ResponseStatus(p) = StatusOK
            /\ (Returned(p) /\ verified[p].err = ""
                    /\ verified[p].event \notin {"ping", "issues"})
                   => ResponseStatus(p) = StatusBadRequest
            /\ (Returned(p) /\ Decoded(p) /\ payload[p].Action \notin {"opened", Nil})
                   => ResponseStatus(p) = StatusOK

\* An issue that has been edited: answered 200, nothing called.
C24_Witness ==
    /\ handler["r1"] = "/issues"
    /\ Returned("r1")
    /\ VerifiedAs("r1", "issues")
    /\ Decoded("r1")
    /\ payload["r1"].Action = "edited"
    /\ payload["r1"].Issue.Body = "i3 version: 4.9\n"
    /\ ResponseStatus("r1") = StatusOK
    /\ calls["r1"] = <<>>
(***************************************************************************)
(* Comments and labels against the snapshot.                               *)
(***************************************************************************)

\* The label a comment goes with.
AssociatedLabel(comment) ==
    IF comment = EnhancementComment THEN "enhancement"
    ELSE IF comment = MissingLogComment THEN "missing-log"
    ELSE IF comment = MissingVersionComment THEN "missing-version"
    ELSE "unsupported-version"

\* C25 as stated: every comment of either pipeline comes right after the
\* successful adding of its label, which the snapshot did not have.
C25_EveryCommentGuarded_AsStated ==
    \A p \in Procs :
        \A i \in CallsOf(p, "CreateComment") :
            FollowsNewLabel(p, i, AssociatedLabel(calls[p][i].arg))

\* C25: every comment of either pipeline but the policy comment on a
\* feature request comes right after the successful adding of its label
\* ("missing-log", "missing-version", "unsupported-version"), which the
\* snapshot did not have; the policy comment is posted whatever the labels
\* are and whatever became of the adding of "enhancement".
C25_EveryCommentGuarded ==
    \A p \in Procs :
        \A i \in CallsOf(p, "CreateComment") :
            calls[p][i].arg # EnhancementComment
                => FollowsNewLabel(p, i, AssociatedLabel(calls[p][i].arg))

\* The comment pipeline posts the upgrade comment right after it added
\* "unsupported-version" to an issue that had "missing-version" only.
C25_Witness ==
    /\ handler["r1"] = "/issue_comment"
    /\ Decoded("r1")
    /\ Snapshot("r1") = {"missing-version"}
    /\ Len(calls["r1"]) = 4
    /\ calls["r1"][3] = [op |-> "AddLabels", arg |-> "unsupported-version", ok |-> TRUE]
    /\ calls["r1"][4].op = "CreateComment"
    /\ calls["r1"][4].arg = UpgradeComment("4.9", "4.10")
\* Run p of the issue-opened pipeline added "unsupported-version" and
\* posted the upgrade comment.
EnforcedBy(p) ==
    /\ handler[p] = "/issues"
    /\ \E i \in CallsOf(p, "CreateComment") :
          /\ calls[p][i].ok
          /\ AssociatedLabel(calls[p][i].arg) = "unsupported-version"
          /\ calls[p][i - 1] = [op |-> "AddLabels", arg |-> "unsupported-version",
                                ok |-> TRUE]

\* C26 as stated: when the first delivery of an opened issue has added
\* "unsupported-version" and posted the upgrade comment, the run of the
\* redelivery posts no upgrade comment and closes nothing.
C26_NoDuplicateOnRedelivery_AsStated ==
    (pc["r1"] = "done" /\ EnforcedBy("r1"))
        => \A j \in 1..Len(calls["r2"]) :
              /\ calls["r2"][j].op # "EditIssue"
              /\ calls["r2"][j].op = "CreateComment"
                    => AssociatedLabel(calls["r2"][j].arg) # "unsupported-version"
\* C27: in every run AddLabels is called only with labels the payload's
\* label list lacks and RemoveLabel only with labels it has.
C27_CallsAgainstSnapshot ==
    \A p \in Procs :
        \A i \in 1..Len(calls[p]) :
            /\ calls[p][i].op = "AddLabels" => calls[p][i].arg \notin Snapshot(p)
            /\ calls[p][i].op = "RemoveLabel" => calls[p][i].arg \in Snapshot(p)

\* A comment with the current version on an issue labelled
\* "missing-version" and "4.10": "missing-version" is removed, "4.10" is
\* not added again and "unsupported-version", which the issue lacks, is
\* not removed.
C27_Witness ==
    /\ pc["r1"] = "done"
    /\ handler["r1"] = "/issue_comment"
    /\ Decoded("r1")
    /\ Snapshot("r1") = {"missing-version", "4.10"}
    /\ payload["r1"].Comment.Body = "i3 version: 4.10"
    /\ milestones["r1"] # <<>>
    /\ milestones["r1"][1] = "4.10"
    /\ Attempted("r1") = <<(<<"RemoveLabel", "missing-version">>),
                           (<<"ListMilestones", "closed">>)>>
\* v is MAJOR.MINOR, one digit, a dot and digits, or one of 3.a to 3.e.
IsMajorMinor(v) ==
    /\ Len(v) >= 3
    /\ Ch(v, 2) = "."
    /\ \/ /\ IsDigit(Ch(v, 1))
          /\ \A k \in 3..Len(v) : IsDigit(Ch(v, k))
       \/ /\ Len(v) = 3
          /\ Ch(v, 1) = "3"
          /\ Ch(v, 3) \in {"a", "b", "c", "d", "e"}

Cached == githubToken.Token # "" /\ githubToken.Secret # ""

\* The last datastore.Get of request p failed.
LoadFailed(p) == gets[p] # <<>> /\ ~gets[p][Len(gets[p])]

\* A request whose load failed has been answered 500 and has neither
\* verified a signature nor decoded an event nor called the tracker; and
\* as long as nothing is cached no request is beyond the loading.
FailedLoadStops ==
    \A p \in Procs :
        /\ LoadFailed(p)
              => /\ pc[p] = "done"
                 /\ w[p] = StatusInternalServerError
                 /\ verified[p] = NoVerified
                 /\ ~Decoded(p)
                 /\ calls[p] = <<>>
        /\ (~Cached /\ pc[p] \notin {"idle", "token"}) => LoadFailed(p)

\* A step reads the store only when the token or the secret is not cached,
\* and only a read that succeeds changes what is cached.
ReadsOnlyWhileEmpty ==
    /\ \A p \in Procs : Len(gets'[p]) > Len(gets[p]) => ~Cached
    /\ githubToken' # githubToken
          => \E p \in Procs : Len(gets'[p]) > Len(gets[p]) /\ ~LoadFailed(p)'

C30_CommentCreatedOnly_AsStated ==
    \A p \in Procs :
        (handler[p] = "/issue_comment" /\ Decoded(p) /\ payload[p].Action # "created")
            => \A i \in 1..Len(calls[p]) :
                  calls[p][i].ok
                      => calls[p][i].op \notin {"AddLabels", "RemoveLabel",
                                                "CreateComment", "EditIssue"}
(***************************************************************************)
(* The classifier and the case of the letters.                             *)
(***************************************************************************)

\* The labels and the comments that the classifier decides on.
ClassifierArgs ==
    {"enhancement", "requires-configuration", "documentation", "bug", "missing-log",
     EnhancementComment, MissingLogComment}

\* The calls of request p that the classifier decides on, in order.
ClassifierCalls(p) ==
    LET Decides(c) == c[2] \in ClassifierArgs
    IN  SelectSeq(Attempted(p), Decides)

\* C31 as stated: two events that differ in the case of the letters of the
\* issue's title and body, or of the comment's text, make their runs call
\* the same changes of the labels and comments that the classifier decides
\* on, in the issue-opened and in the comment pipeline.
C31_CaseInsensitive_AsStated ==
    (pc["r1"] = "done" /\ pc["r2"] = "done" /\ AllSucceeded("r1") /\ AllSucceeded("r2"))
        => ClassifierCalls("r1") = ClassifierCalls("r2")
(***************************************************************************)
(* The closing of the issue.                                               *)
(***************************************************************************)

\* The program and the version that the run of p has found: in the body of
\* the opened issue, or in the comment.
RunProduct(p) == IF handler[p] = "/issues" THEN IssueProduct(p) ELSE CommentProduct(p)
RunVersion(p) == IF handler[p] = "/issues" THEN IssueVersion(p) ELSE CommentVersion(p)

\* The call at position i of the run of p closes the issue, right after
\* the upgrade comment, which is right after the successful adding of
\* "unsupported-version", all after a listing that gave milestones of
\* which the first is not the version of i3 that was found.
ClosesAfterEnforcement(p, i) ==
    /\ calls[p][i].arg = "closed"
    /\ calls[p][i].reason = "not_planned"
    /\ i >= 4
    /\ calls[p][i - 1].op = "CreateComment"
    /\ calls[p][i - 1].arg = UpgradeComment(RunVersion(p), milestones[p][1])
    /\ calls[p][i - 2] = [op |-> "AddLabels", arg |-> "unsupported-version", ok |-> TRUE]
    /\ \E j \in CallsOf(p, "ListMilestones") : j < i - 2 /\ calls[p][j].ok
    /\ milestones[p] # <<>>
    /\ RunProduct(p) = "i3"
    /\ RunVersion(p) # milestones[p][1]

\* C32: in every run of either pipeline EditIssue is called only after a
\* listing that gave milestones, for a version of i3 that is not the first
\* milestone's title, after "unsupported-version" has been added and the
\* upgrade comment has been tried; it is called at most once in a run and
\* it closes: the issue is never opened again.
C32_CloseInvariant ==
    /\ \A p \in Procs :
          /\ Cardinality(CallsOf(p, "EditIssue")) <= 1
          /\ \A i \in CallsOf(p, "EditIssue") : ClosesAfterEnforcement(p, i)
    /\ issue.state = "closed"
          => /\ issue.state_reason = "not_planned"
             /\ \E p \in Procs : \E i \in CallsOf(p, "EditIssue") : calls[p][i].ok

\* The author of an issue that lacks a version comments with the old
\* version 4.9: the comment pipeline lists the milestones, adds
\* "unsupported-version", comments and closes.
C32_Witness ==
    /\ pc["r1"] = "done"
    /\ handler["r1"] = "/issue_comment"
    /\ Decoded("r1")
    /\ Snapshot("r1") = {"missing-version"}
    /\ payload["r1"].Comment.Body = "it is i3 version 4.9"
    /\ milestones["r1"] = <<"4.10", "4.9">>
    /\ Len(calls["r1"]) = 5
    /\ calls["r1"][5] = [op |-> "EditIssue", arg |-> "closed", reason |-> "not_planned",
                         ok |-> TRUE]
    /\ issue.state = "closed"
(***************************************************************************)
(* Payloads with absent fields.                                            *)
(***************************************************************************)

\* A field the handler of request p reads is absent from (or null in) the
\* decoded payload.
LacksField(p) ==
    IF handler[p] = "/issues"
    THEN \/ payload[p].Action = Nil
         \/ payload[p].Issue.Body = Nil
         \/ payload[p].Issue.Title = Nil
    ELSE \/ payload[p].Issue.User = Nil
         \/ payload[p].Comment.User = Nil
         \/ payload[p].Comment.Body = Nil

\* C33 as stated: the handler of a verified payload that is well-formed
\* JSON returns normally, also when the action, the body, the title, the
\* comment's text or a login is absent or null: no run ends in a panic.
C33_NoCrashOnAbsentFields_AsStated ==
    \A p \in Procs : (Decoded(p) /\ LacksField(p)) => pc[p] # "panic"
====
